---- MODULE Spec2Model ----
(***************************************************************************)
(* Offer management of the merchant dashboard: the tier-scaling creation   *)
(* form (components/NewOfferForm.tsx) and the edit form OfferForm of the   *)
(* offers page, with the part of the offers page that mounts them.         *)
(*                                                                         *)
(* Strings that the code compares, splits or trims are sequences of code   *)
(* units; template strings (titles, descriptions, messages) are records    *)
(* or message keys.  Numbers are integers.                                 *)
(***************************************************************************)
EXTENDS Integers, Sequences, FiniteSets, TLC

----------------------------------------------------------------------------
(* Strings *)

\* code units of the characters the forms handle
CharDash == 45
CharZero == 48
CharT == 84
CharSpace == 32
CharA == 65

EmptyStr == <<>>

\* JS null in a place where the code holds `string | null`
Null == <<0 - 1>>

\* String.prototype.split('T')[0] : the part before the first 'T'
RECURSIVE SplitT0(_)
SplitT0(s) ==
  IF s = <<>> THEN <<>>
  ELSE IF Head(s) = CharT THEN <<>>
  ELSE <<Head(s)>> \o SplitT0(Tail(s))

\* a >= b in place of a > b
StrGE(a, b) ==
  \/ a = b
  \/ \E k \in 0..Len(b) :
       /\ k <= Len(a)
       /\ \A j \in 1..k : a[j] = b[j]
       /\ \/ k = Len(b) /\ Len(a) > k
          \/ k < Len(b) /\ k < Len(a) /\ a[k + 1] > b[k + 1]

\* a > b on JS strings: comparison by code units, a proper prefix is smaller
StrGT(a, b) ==
  \E k \in 0..Len(b) :
    /\ k <= Len(a)
    /\ \A j \in 1..k : a[j] = b[j]
    /\ \/ k = Len(b) /\ Len(a) > k
       \/ k < Len(b) /\ k < Len(a) /\ a[k + 1] > b[k + 1]

\* String.prototype.trim() over strings of spaces and letters
RECURSIVE TrimLeft(_)
TrimLeft(s) ==
  IF s = <<>> THEN <<>>
  ELSE IF Head(s) = CharSpace THEN TrimLeft(Tail(s))
  ELSE s

RECURSIVE TrimRight(_)
TrimRight(s) ==
  IF s = <<>> THEN <<>>
  ELSE IF s[Len(s)] = CharSpace THEN TrimRight(SubSeq(s, 1, Len(s) - 1))
  ELSE s

Trim(s) == TrimRight(TrimLeft(s))

\* the value of an <input type="date"> : "YYYY-MM-DD"
TwoDigits(n) == <<CharZero + (n \div 10), CharZero + (n % 10)>>

IsoDate(y, m, d) ==
  TwoDigits(y \div 100) \o TwoDigits(y % 100) \o <<CharDash>>
    \o TwoDigits(m) \o <<CharDash>> \o TwoDigits(d)

\* a timestamp column as the store returns it: "YYYY-MM-DDT00..."
IsoTimestamp(y, m, d) == IsoDate(y, m, d) \o <<CharT, CharZero, CharZero>>

\* the JS remainder operator: the result has the sign of the dividend
JsRem(a, n) == IF a >= 0 THEN a % n ELSE 0 - ((0 - a) % n)

\* a JS object used as a mapping: a function over the keys that are set
EmptyMap == [k \in {} |-> ""]

SetKey(map, key, value) == (key :> value) @@ map

\* a check that only looks at the discount_value key
HasKeys_discountOnly(map) == "discount_value" \in DOMAIN map

\* Object.keys(map).length > 0
HasKeys(map) == DOMAIN map # {}

----------------------------------------------------------------------------
(* NewOfferForm: constants and pure functions *)

FOLLOWER_TIERS == <<500, 1000, 2000, 5000, 10000, 20000, 50000, 100000>>

PercentStepIncrease == 10
CouponStepIncrease == 5
CouponMaxDiscount == 150

\* SCALING_RULES[discount_type]
SCALING_RULES(discount_type) ==
  IF discount_type = "percent"
  THEN [stepIncrease |-> PercentStepIncrease, hasMax |-> FALSE, maxDiscount |-> 0]
  ELSE [stepIncrease |-> CouponStepIncrease, hasMax |-> TRUE,
        maxDiscount |-> CouponMaxDiscount]

FreeThreshold == 150

\* generateTitle with `>` in place of `>=`
generateTitle_strictlyAbove(discountType, discountValue, businessName) ==
  IF discountType = "percent"
  THEN [form |-> "percent", value |-> discountValue, name |-> businessName]
  ELSE IF discountValue > FreeThreshold
       THEN [form |-> "free", value |-> 0, name |-> businessName]
       ELSE [form |-> "currency", value |-> discountValue, name |-> businessName]

\* `-${value}% at ${name}` | `Free at ${name}` | `-${currency(value)} at ${name}`
generateTitle(discountType, discountValue, businessName) ==
  IF discountType = "percent"
  THEN [form |-> "percent", value |-> discountValue, name |-> businessName]
  ELSE IF discountValue >= FreeThreshold
       THEN [form |-> "free", value |-> 0, name |-> businessName]
       ELSE [form |-> "currency", value |-> discountValue, name |-> businessName]

generateDescription(discountType, discountValue) ==
  IF discountType = "percent"
  THEN [form |-> "percent", value |-> discountValue]
  ELSE IF discountValue >= FreeThreshold
       THEN [form |-> "free", value |-> 0]
       ELSE [form |-> "currency", value |-> discountValue]

PercentMin == 5
PercentMax == 100
PercentStep == 5
CouponMin == 1

\* validateForm without the remainder test of the percent rule
validateForm_noStep(data) ==
  LET e0 == EmptyMap
      e1 == IF data.discount_type = "percent"
            THEN IF \/ data.discount_value < PercentMin
                    \/ data.discount_value > PercentMax
                 THEN SetKey(e0, "discount_value", "offers.newFormValidationDiscount")
                 ELSE e0
            ELSE IF data.discount_value < CouponMin
                 THEN SetKey(e0, "discount_value", "offers.newFormValidationFixed")
                 ELSE e0
      e2 == IF data.start_at = EmptyStr
            THEN SetKey(e1, "start_at", "offers.newFormValidationStartDate")
            ELSE e1
      e3 == IF /\ data.start_at # EmptyStr
               /\ data.end_at # EmptyStr
               /\ StrGT(data.start_at, data.end_at)
            THEN SetKey(e2, "end_at", "offers.newFormValidationEndDate")
            ELSE e2
  IN e3

\* validateForm without the start date requirement
validateForm_noStartDate(data) ==
  LET e0 == EmptyMap
      e1 == IF data.discount_type = "percent"
            THEN IF \/ data.discount_value < PercentMin
                    \/ data.discount_value > PercentMax
                    \/ JsRem(data.discount_value, PercentStep) # 0
                 THEN SetKey(e0, "discount_value", "offers.newFormValidationDiscount")
                 ELSE e0
            ELSE IF data.discount_value < CouponMin
                 THEN SetKey(e0, "discount_value", "offers.newFormValidationFixed")
                 ELSE e0
      e3 == IF /\ data.start_at # EmptyStr
               /\ data.end_at # EmptyStr
               /\ StrGT(data.start_at, data.end_at)
            THEN SetKey(e1, "end_at", "offers.newFormValidationEndDate")
            ELSE e1
  IN e3

validateForm(data) ==
  LET e0 == EmptyMap
      e1 == IF data.discount_type = "percent"
            THEN IF \/ data.discount_value < PercentMin
                    \/ data.discount_value > PercentMax
                    \/ JsRem(data.discount_value, PercentStep) # 0
                 THEN SetKey(e0, "discount_value", "offers.newFormValidationDiscount")
                 ELSE e0
            ELSE IF data.discount_value < CouponMin
                 THEN SetKey(e0, "discount_value", "offers.newFormValidationFixed")
                 ELSE e0
      e2 == IF data.start_at = EmptyStr
            THEN SetKey(e1, "start_at", "offers.newFormValidationStartDate")
            ELSE e1
      e3 == IF /\ data.start_at # EmptyStr
               /\ data.end_at # EmptyStr
               /\ StrGT(data.start_at, data.end_at)
            THEN SetKey(e2, "end_at", "offers.newFormValidationEndDate")
            ELSE e2
  IN e3

\* FOLLOWER_TIERS.findIndex(tier => tier.value === v), 1-based; 0 for "not found"
FindTierIndex(v) ==
  IF \E i \in 1..Len(FOLLOWER_TIERS) : FOLLOWER_TIERS[i] = v
  THEN CHOOSE i \in 1..Len(FOLLOWER_TIERS) :
         /\ FOLLOWER_TIERS[i] = v
         /\ \A j \in 1..(i - 1) : FOLLOWER_TIERS[j] # v
  ELSE 0

NoMerchant == [id |-> 0, name |-> "", subscription_status |-> "none"]

\* the increment of the base value for every discount type
ScaledDiscountValue_baseStep(baseOffer, tierSteps) ==
  LET scalingRule == SCALING_RULES(baseOffer.discount_type)
      raw == baseOffer.discount_value + (tierSteps * baseOffer.discount_value)
  IN IF /\ baseOffer.discount_type = "coupon"
        /\ scalingRule.hasMax
        /\ raw > scalingRule.maxDiscount
     THEN scalingRule.maxDiscount
     ELSE raw

\* the increment of SCALING_RULES for every discount type
ScaledDiscountValue_ruleStep(baseOffer, tierSteps) ==
  LET scalingRule == SCALING_RULES(baseOffer.discount_type)
      raw == baseOffer.discount_value + (tierSteps * scalingRule.stepIncrease)
  IN IF /\ baseOffer.discount_type = "coupon"
        /\ scalingRule.hasMax
        /\ raw > scalingRule.maxDiscount
     THEN scalingRule.maxDiscount
     ELSE raw

\* the discount value of the entry `tierSteps` tiers above the base offer
ScaledDiscountValue(baseOffer, tierSteps) ==
  LET scalingRule == SCALING_RULES(baseOffer.discount_type)
      raw == IF baseOffer.discount_type = "coupon"
             THEN baseOffer.discount_value + (tierSteps * baseOffer.discount_value)
             ELSE baseOffer.discount_value + (tierSteps * scalingRule.stepIncrease)
  IN IF /\ baseOffer.discount_type = "coupon"
        /\ scalingRule.hasMax
        /\ raw > scalingRule.maxDiscount
     THEN scalingRule.maxDiscount
     ELSE raw

\* the ladder body, shared by the variants below
LadderFrom(m, baseOffer, currentTierIndex, lastIndex) ==
  [k \in 1..(lastIndex - currentTierIndex) |->
     LET newDiscountValue == ScaledDiscountValue(baseOffer, k)
     IN [min_followers |-> FOLLOWER_TIERS[currentTierIndex + k],
         discount_value |-> newDiscountValue,
         title |-> generateTitle(baseOffer.discount_type, newDiscountValue, m.name),
         selected |-> TRUE]]

\* generateScalingOffers without the test for "not found"
generateScalingOffers_noNotFound(m, baseOffer) ==
  LET currentTierIndex == FindTierIndex(baseOffer.min_followers)
  IN IF m = NoMerchant THEN <<>>
     ELSE LadderFrom(m, baseOffer, currentTierIndex, Len(FOLLOWER_TIERS))

\* generateScalingOffers with a loop that stops one tier early
generateScalingOffers_skipTop(m, baseOffer) ==
  LET currentTierIndex == FindTierIndex(baseOffer.min_followers)
  IN IF m = NoMerchant THEN <<>>
     ELSE IF currentTierIndex = 0 \/ currentTierIndex = Len(FOLLOWER_TIERS) THEN <<>>
     ELSE LadderFrom(m, baseOffer, currentTierIndex, Len(FOLLOWER_TIERS) - 1)

generateScalingOffers(m, baseOffer) ==
  LET currentTierIndex == FindTierIndex(baseOffer.min_followers)
  IN IF m = NoMerchant THEN <<>>
     ELSE IF currentTierIndex = 0 \/ currentTierIndex = Len(FOLLOWER_TIERS) THEN <<>>
     ELSE [k \in 1..(Len(FOLLOWER_TIERS) - currentTierIndex) |->
            LET newDiscountValue == ScaledDiscountValue(baseOffer, k)
            IN [min_followers |-> FOLLOWER_TIERS[currentTierIndex + k],
                discount_value |-> newDiscountValue,
                title |-> generateTitle(baseOffer.discount_type, newDiscountValue, m.name),
                selected |-> TRUE]]

----------------------------------------------------------------------------
(* OfferForm: pure functions *)

NoOffer ==
  [id |-> 0, title |-> EmptyStr, description |-> Null, discount_type |-> "percent",
   discount_value |-> 0, min_followers |-> 0, start_at |-> Null, end_at |-> Null,
   is_active |-> TRUE]

PercentFallbackValue == 10

\* `x || ''` and `x ? x.split('T')[0] : ''` on a `string | null`
OrEmpty(x) == IF x = Null THEN EmptyStr ELSE x

\* `x || null` on a string
OrNull(x) == IF x = EmptyStr THEN Null ELSE x

initialData(offer) ==
  IF offer = NoOffer
  THEN [title |-> EmptyStr, description |-> EmptyStr, discount_type |-> "percent",
        discount_value |-> PercentFallbackValue, min_followers |-> 0,
        start_at |-> EmptyStr, end_at |-> EmptyStr, is_active |-> TRUE]
  ELSE [title |-> offer.title,
        description |-> OrEmpty(offer.description),
        discount_type |-> offer.discount_type,
        discount_value |-> offer.discount_value,
        min_followers |-> offer.min_followers,
        start_at |-> SplitT0(OrEmpty(offer.start_at)),
        end_at |-> SplitT0(OrEmpty(offer.end_at)),
        is_active |-> offer.is_active]

\* computeErrors accepting a fixed amount of 0
computeErrors_couponZero(data) ==
  LET e0 == EmptyMap
      e1 == IF Trim(data.title) = EmptyStr
            THEN SetKey(e0, "title", "offers.validationTitle")
            ELSE e0
      e2 == IF data.discount_type = "percent"
            THEN IF \/ data.discount_value < PercentMin
                    \/ data.discount_value > PercentMax
                    \/ JsRem(data.discount_value, PercentStep) # 0
                 THEN SetKey(e1, "discount_value", "offers.validationPercentage")
                 ELSE e1
            ELSE IF data.discount_value < 0
                 THEN SetKey(e1, "discount_value", "offers.validationFixed")
                 ELSE e1
      e3 == IF /\ data.start_at # EmptyStr
               /\ data.end_at # EmptyStr
               /\ StrGT(data.start_at, data.end_at)
            THEN SetKey(e2, "end_at", "offers.validationDates")
            ELSE e2
  IN e3

computeErrors(data) ==
  LET e0 == EmptyMap
      e1 == IF Trim(data.title) = EmptyStr
            THEN SetKey(e0, "title", "offers.validationTitle")
            ELSE e0
      e2 == IF data.discount_type = "percent"
            THEN IF \/ data.discount_value < PercentMin
                    \/ data.discount_value > PercentMax
                    \/ JsRem(data.discount_value, PercentStep) # 0
                 THEN SetKey(e1, "discount_value", "offers.validationPercentage")
                 ELSE e1
            ELSE IF data.discount_value < CouponMin
                 THEN SetKey(e1, "discount_value", "offers.validationFixed")
                 ELSE e1
      e3 == IF /\ data.start_at # EmptyStr
               /\ data.end_at # EmptyStr
               /\ StrGT(data.start_at, data.end_at)
            THEN SetKey(e2, "end_at", "offers.validationDates")
            ELSE e2
  IN e3

\* the payload OfferForm.handleSubmit sends
OfferPayload(m, data) ==
  [merchant_id |-> m.id,
   title |-> Trim(data.title),
   description |-> OrNull(data.description),
   discount_type |-> data.discount_type,
   discount_value |-> data.discount_value,
   min_followers |-> data.min_followers,
   start_at |-> OrNull(data.start_at),
   end_at |-> OrNull(data.end_at),
   is_active |-> data.is_active]

----------------------------------------------------------------------------
(* NewOfferForm.createOffers: the rows of the insert call *)

\* one element of offersData; an entry of the ladder carries its own title
OfferRow(m, formData, discount_value, min_followers, hasTitle, title) ==
  [merchant_id |-> m.id,
   title |-> IF hasTitle THEN title
             ELSE generateTitle(formData.discount_type, discount_value, m.name),
   description |-> generateDescription(formData.discount_type, discount_value),
   discount_type |-> formData.discount_type,
   discount_value |-> discount_value,
   min_followers |-> min_followers,
   start_at |-> OrNull(formData.start_at),
   end_at |-> OrNull(formData.end_at),
   is_active |-> TRUE]

\* offersData for createOffers([formData, ...entries])
OffersData(m, formData, entries) ==
  <<OfferRow(m, formData, formData.discount_value, formData.min_followers,
             FALSE, generateTitle("percent", 0, ""))>>
    \o [i \in 1..Len(entries) |->
          OfferRow(m, formData, entries[i].discount_value, entries[i].min_followers,
                   TRUE, entries[i].title)]

\* a filter that tests for the presence of the flag instead of its value
IsSelected_always(offer) == "selected" \in DOMAIN offer

IsSelected(offer) == offer.selected

NoRequest == [op |-> "none"]

----------------------------------------------------------------------------
(* Inputs and bounds *)

Today == IsoDate(2025, 1, 10)
DayBefore == IsoDate(2025, 1, 9)

DiscountTypes == {"percent", "coupon"}
TierValues == {FOLLOWER_TIERS[i] : i \in 1..Len(FOLLOWER_TIERS)}

\* what the user types or picks in the interactive specification
DateInputs == {EmptyStr, DayBefore}
ValueInputs == {0, 7}
TierInputs == {20000, 50000, 100000}
TitleInputs == {<<CharSpace>>, <<CharSpace, CharA, CharSpace>>}
DescriptionInputs == {<<CharA>>}
OfferFormFollowerInputs == {0}

ActiveMerchant == [id |-> 1, name |-> "Cafe", subscription_status |-> "active"]
SuspendedMerchant == [id |-> 1, name |-> "Cafe", subscription_status |-> "suspended"]
Merchants == {ActiveMerchant, SuspendedMerchant}

\* rows the offers list can show (content of the external store)
StoredOffers ==
  { [id |-> 1, title |-> <<CharA>>, description |-> Null, discount_type |-> "percent",
     discount_value |-> 10, min_followers |-> 500,
     start_at |-> IsoTimestamp(2025, 1, 9), end_at |-> Null, is_active |-> TRUE],
    [id |-> 2, title |-> <<CharA>>, description |-> Null, discount_type |-> "percent",
     discount_value |-> 110, min_followers |-> 500,
     start_at |-> IsoTimestamp(2025, 1, 10), end_at |-> IsoTimestamp(2025, 1, 9),
     is_active |-> FALSE] }

\* in-flight requests whose component was unmounted before the answer
MaxOrphans == 1
\* handleChange calls made while one request of the form is in flight
MaxChangesWhileSaving == 1
\* toggleScalingOffer calls made on one ladder
MaxToggles == 1

----------------------------------------------------------------------------
(* State *)

VARIABLES
  merchant,          \* useAuth().merchant, NoMerchant for null
  offersLoading,     \* OffersPage: offersLoading
  newFormOpen,       \* OffersPage: newFormOpen
  formOpen,          \* OffersPage: formOpen
  editingOffer,      \* OffersPage: editingOffer, NoOffer for null
  nFormData,         \* NewOfferForm: formData
  nErrors,           \* NewOfferForm: errors
  nLoading,          \* NewOfferForm: loading
  showScalingModal,  \* NewOfferForm: showScalingModal
  scalingOffers,     \* NewOfferForm: scalingOffers
  nRequest,          \* the insert call of the mounted NewOfferForm that is in flight
  nChanges,          \* handleChange calls since that call was issued
  nToggles,          \* toggleScalingOffer calls since the modal was opened
  nOrphans,          \* insert calls in flight whose NewOfferForm was unmounted
  oFormData,         \* OfferForm: formData
  oErrors,           \* OfferForm: errors
  oLoading,          \* OfferForm: loading
  oRequest,          \* the insert/update call of the mounted OfferForm that is in flight
  oChanges,          \* handleChange calls since that call was issued
  oOrphans           \* insert/update calls in flight whose OfferForm was unmounted

pageVars == <<merchant, offersLoading, newFormOpen, formOpen, editingOffer>>
newVars == <<nFormData, nErrors, nLoading, showScalingModal, scalingOffers,
             nRequest, nChanges, nToggles, nOrphans>>
offerVars == <<oFormData, oErrors, oLoading, oRequest, oChanges, oOrphans>>
offersVars == <<pageVars, newVars, offerVars>>

\* the middleware handling one request (src/unnamed/part_011)
VARIABLES
  mwVariant,         \* which of the two middleware sources handles the request
  mwEnv,             \* process.env: which of the two Supabase variables are set
  mwPath,            \* req.nextUrl.pathname
  mwPc,              \* "idle", "awaitSession" or "done"
  mwSession,         \* how the session lookup ended
  mwResponse         \* what the middleware returned

mwVars == <<mwVariant, mwEnv, mwPath, mwPc, mwSession, mwResponse>>

\* AuthProvider (src/unnamed/part_009)
VARIABLES
  apMounted,         \* isMounted of the effect and isMountedRef.current
  apLoading,         \* loading
  apUser,            \* user: the id of the auth user, 0 for null
  apUserRecord,      \* userRecord: the id of the auth user it belongs to, 0 for null
  apMerchant,        \* merchant: NoProfile for null
  loadingDataRef,    \* loadingDataRef.current
  apInit,            \* position of getInitialSession
  apDeferred,        \* the setTimeout(..., 100) callbacks not yet run, oldest first
  apLoads,           \* the loadAuthData executions between their flag test and their end
  apEvents           \* auth state change events delivered so far

apVars == <<apMounted, apLoading, apUser, apUserRecord, apMerchant, loadingDataRef,
            apInit, apDeferred, apLoads, apEvents>>

\* AuthErrorBoundary (src/components/AuthErrorBoundary.tsx)
VARIABLES
  ebStatus,          \* "mounted"; "rethrown": the error went to the parent;
                     \* "redirected": window.location.href was set to '/'
  ebHasError,        \* state.hasError
  ebError,           \* state.error: <<>> for null, else <<the texts its message includes>>
  ebRetryCount,      \* state.retryCount
  ebSignOuts,        \* handleRefreshTokenError executions awaiting signOut
  ebRedirectTimers,  \* setTimeout(..., 1000) callbacks of handleRefreshTokenError
  ebPresses          \* presses of "Try Again" so far

ebVars == <<ebStatus, ebHasError, ebError, ebRetryCount, ebSignOuts, ebRedirectTimers,
            ebPresses>>

\* RateLimiter (src/unnamed/part_000, lines 197-243)
VARIABLES
  rlMaxAttempts,     \* this.maxAttempts
  rlWindowMs,        \* this.windowMs, in quarters of an hour
  rlNow,             \* Date.now(), in quarters of an hour
  rlAttempts,        \* this.attempts: identifier -> record, NoRecord when absent
  rlAllowed,         \* per identifier, the times of the isAllowed calls that
                     \* returned true since its last reset, oldest first
  rlCalls            \* isAllowed calls so far

rlVars == <<rlMaxAttempts, rlWindowMs, rlNow, rlAttempts, rlAllowed, rlCalls>>

\* AuthTimeoutManager (src/lib/storage.ts, lines 96-158); the retry counters
\* take no part in the timers and are left out
VARIABLES
  tmTimeouts,        \* this.timeouts: operationId -> timer handle, 0 when absent
  tmPending,         \* the timers of the runtime that are set and have neither
                     \* fired nor been cleared: records [handle, operationId]
  tmHandles,         \* timer handles given out so far
  tmCleared          \* per operationId: clearTimeout or clearAll was called and
                     \* no setTimeout for it since

tmVars == <<tmTimeouts, tmPending, tmHandles, tmCleared>>

\* SignupPage, the three-step flow (src/app/signup/page.tsx, lines 451-end)
VARIABLES
  suStep,            \* step: "1", "2", "3", "loading", "confirmation"; "left" once
                     \* router.push('/login') was called
  suLoading,         \* loading
  suFilled,          \* formData: per step, whether its fields pass the checks
                     \* of `errors` (lines 527-549)
  suPc,              \* handleFinalSubmit: "idle", "awaitSignUp", "awaitWebhook"
  suSignUp,          \* how signUp ended in the last attempt
  suWebhook,         \* what callWebhook returned in the last attempt
  suAttempts         \* attempts started so far

suVars == <<suStep, suLoading, suFilled, suPc, suSignUp, suWebhook, suAttempts>>

\* LanguageProvider (src/unnamed/part_010, lines 44-130)
VARIABLES
  lpPc,              \* "rendered": first render done, its effects not yet run;
                     \* "ready": afterwards
  lpLanguage,        \* language
  lpInitialised,     \* initialisedRef.current
  lpStored,          \* window.localStorage.getItem(STORAGE_KEY)
  lpMerchant,        \* useAuth().merchant: its id and preferred_language, or
                     \* NoMerchantYet
  lpUpdate           \* the last update sent to the merchants table: [id, code]

lpVars == <<lpPc, lpLanguage, lpInitialised, lpStored, lpMerchant, lpUpdate>>

\* the components after the error boundary
moreVars == <<rlVars, tmVars, suVars, lpVars>>

\* the state outside the offers page
extVars == <<mwVars, apVars, ebVars, moreVars>>

\* the state outside the middleware, AuthProvider and AuthErrorBoundary
notMwVars == <<offersVars, apVars, ebVars, moreVars>>
notApVars == <<offersVars, mwVars, ebVars, moreVars>>
notEbVars == <<offersVars, mwVars, apVars, moreVars>>

\* the state outside RateLimiter
firstVars == <<offersVars, mwVars, apVars, ebVars>>
notRlVars == <<firstVars, tmVars, suVars, lpVars>>
notTmVars == <<firstVars, rlVars, suVars, lpVars>>
notSuVars == <<firstVars, rlVars, tmVars, lpVars>>
notLpVars == <<firstVars, rlVars, tmVars, suVars>>

vars == <<offersVars, extVars>>

\* request paths, as sequences of characters
PathHome == <<"/">>
PathLogin == <<"/", "l", "o", "g", "i", "n">>
PathDashboard == <<"/", "d", "a", "s", "h", "b", "o", "a", "r", "d">>
PathDashboardOffers == PathDashboard \o <<"/", "o", "f", "f", "e", "r", "s">>

\* String.prototype.startsWith
StartsWith(s, prefix) ==
  /\ Len(s) >= Len(prefix)
  /\ SubSeq(s, 1, Len(prefix)) = prefix

NoResponse == [kind |-> "none"]

\* no request is being handled
MiddlewareIdle ==
  /\ mwPath = PathHome
  /\ mwPc = "idle"
  /\ mwSession = "none"
  /\ mwResponse = NoResponse

\* the deployment of the middleware while other components are explored
MiddlewareInitial ==
  /\ mwVariant = "dashboardMatcher"
  /\ mwEnv = [url |-> TRUE, anonKey |-> TRUE]
  /\ MiddlewareIdle

\* merchant: null
NoProfile == [owner |-> 0, logo |-> "none"]

\* AuthProvider after its first render and effect: useState and useRef initial
\* values, initTimer set
AuthProviderInitial ==
  /\ apMounted = TRUE
  /\ apLoading = TRUE
  /\ apUser = 0
  /\ apUserRecord = 0
  /\ apMerchant = NoProfile
  /\ loadingDataRef = FALSE
  /\ apInit = "timer"
  /\ apDeferred = <<>>
  /\ apLoads = <<>>
  /\ apEvents = 0

\* AuthErrorBoundary after its constructor
BoundaryInitial ==
  /\ ebStatus = "mounted"
  /\ ebHasError = FALSE
  /\ ebError = <<>>
  /\ ebRetryCount = 0
  /\ ebSignOuts = 0
  /\ ebRedirectTimers = 0
  /\ ebPresses = 0

RateLimiterIds == {"a@x", "b@x"}

NoRecord == [count |-> 0, lastAttempt |-> 0]

\* loginRateLimiter after its constructor: 5 attempts per 15 minutes
RateLimiterInitial ==
  /\ rlMaxAttempts = 5
  /\ rlWindowMs = 1
  /\ rlNow = 0
  /\ rlAttempts = [identifier \in RateLimiterIds |-> NoRecord]
  /\ rlAllowed = [identifier \in RateLimiterIds |-> <<>>]
  /\ rlCalls = 0

OperationIds == {"session", "login"}

\* authTimeoutManager after its construction (line 161)
TimeoutManagerInitial ==
  /\ tmTimeouts = [operationId \in OperationIds |-> 0]
  /\ tmPending = {}
  /\ tmHandles = 0
  /\ tmCleared = [operationId \in OperationIds |-> FALSE]

FormSteps == {"1", "2", "3"}

\* SignupPage after its first render: useState initial values, empty form
SignupInitial ==
  /\ suStep = "1"
  /\ suLoading = FALSE
  /\ suFilled = [step \in FormSteps |-> FALSE]
  /\ suPc = "idle"
  /\ suSignUp = "none"
  /\ suWebhook = "none"
  /\ suAttempts = 0

DEFAULT_LANGUAGE == "en"

\* the codes of LANGUAGE_OPTIONS (imported from '@/lib/i18n', which holds
\* DEFAULT_LANGUAGE and the other languages of the selector)
LANGUAGE_OPTIONS == {"en", "fr", "es"}

\* useAuth().merchant is null
NoMerchantYet == [id |-> 0, preferred_language |-> "null"]

\* no update of merchants.preferred_language was sent
NoLanguageUpdate == [id |-> 0, code |-> "none"]

\* LanguageProvider after its first render, nothing in localStorage; the merchant
\* of AuthProvider is null at its own first render (part_009, line 23)
LanguageInitial ==
  /\ lpPc = "rendered"
  /\ lpLanguage = DEFAULT_LANGUAGE
  /\ lpInitialised = FALSE
  /\ lpStored = "null"
  /\ lpMerchant = NoMerchantYet
  /\ lpUpdate = NoLanguageUpdate

\* the components after the error boundary, while another one is explored
MoreInitial ==
  /\ RateLimiterInitial
  /\ TimeoutManagerInitial
  /\ SignupInitial
  /\ LanguageInitial

\* the state outside the offers page, while the offers page is explored
ExtInitial ==
  /\ MiddlewareInitial
  /\ AuthProviderInitial
  /\ BoundaryInitial
  /\ MoreInitial

\* useState initial value of NewOfferForm.formData
NewInitialFormData ==
  [discount_type |-> "percent", discount_value |-> 10, min_followers |-> 1000,
   start_at |-> Today, end_at |-> EmptyStr]

isSuspended == merchant.subscription_status = "suspended"

\* OffersPage renders its content (and so the forms) only when isReady
isReady == ~offersLoading /\ merchant # NoMerchant

NewFormMounted == isReady /\ newFormOpen
OfferFormMounted == isReady /\ formOpen

\* state of a NewOfferForm that is not mounted, or was just mounted
NewFormFresh ==
  /\ nFormData' = NewInitialFormData
  /\ nErrors' = EmptyMap
  /\ nLoading' = FALSE
  /\ showScalingModal' = FALSE
  /\ scalingOffers' = <<>>
  /\ nRequest' = NoRequest
  /\ nChanges' = 0
  /\ nToggles' = 0

\* state of an OfferForm for `offer` after mount and its first effect
OfferFormFresh(offer) ==
  /\ oFormData' = initialData(offer)
  /\ oErrors' = IF offer # NoOffer THEN computeErrors(initialData(offer)) ELSE EmptyMap
  /\ oLoading' = FALSE
  /\ oRequest' = NoRequest
  /\ oChanges' = 0

\* both forms leave the tree; calls in flight lose their component
UnmountForms(offer) ==
  /\ (nLoading \/ oLoading) => nOrphans + oOrphans < MaxOrphans
  /\ NewFormFresh
  /\ OfferFormFresh(offer)
  /\ nOrphans' = IF nLoading THEN nOrphans + 1 ELSE nOrphans
  /\ oOrphans' = IF oLoading THEN oOrphans + 1 ELSE oOrphans

Init ==
  /\ merchant = NoMerchant
  /\ offersLoading = TRUE
  /\ newFormOpen \in BOOLEAN
  /\ formOpen = FALSE
  /\ editingOffer = NoOffer
  /\ nFormData = NewInitialFormData
  /\ nErrors = EmptyMap
  /\ nLoading = FALSE
  /\ showScalingModal = FALSE
  /\ scalingOffers = <<>>
  /\ nRequest = NoRequest
  /\ nChanges = 0
  /\ nToggles = 0
  /\ nOrphans = 0
  /\ oFormData = initialData(NoOffer)
  /\ oErrors = EmptyMap
  /\ oLoading = FALSE
  /\ oRequest = NoRequest
  /\ oChanges = 0
  /\ oOrphans = 0
  /\ ExtInitial

----------------------------------------------------------------------------
(* OffersPage *)

\* AuthProvider publishes another merchant value (sign in, refresh, sign out)
AuthMerchantChanged(m) ==
  /\ m # merchant
  /\ merchant' = m
  /\ offersLoading' = IF m # NoMerchant THEN TRUE ELSE offersLoading
  /\ newFormOpen' = newFormOpen
  /\ formOpen' = IF m.subscription_status = "suspended" THEN FALSE ELSE formOpen
  /\ editingOffer' = IF m.subscription_status = "suspended" /\ formOpen
                     THEN NoOffer ELSE editingOffer
  /\ UnmountForms(editingOffer')
  /\ UNCHANGED extVars

\* fetchOffers settles (data or error): finally setOffersLoading(false)
FetchOffersDone ==
  /\ offersLoading
  /\ offersLoading' = FALSE
  /\ UNCHANGED <<merchant, newFormOpen, formOpen, editingOffer, newVars, offerVars>>
  /\ UNCHANGED extVars

\* the buttons of the list are covered while a form (a full-screen overlay,
\* `fixed inset-0 z-50`) is open, so a form is opened from the bare list only
openNewCreateForm ==
  /\ isReady
  /\ ~formOpen /\ ~newFormOpen
  /\ ~isSuspended
  /\ newFormOpen' = TRUE
  /\ UNCHANGED <<merchant, offersLoading, formOpen, editingOffer, newVars, offerVars>>
  /\ UNCHANGED extVars

openEditForm(offer) ==
  /\ isReady
  /\ ~formOpen /\ ~newFormOpen
  /\ ~isSuspended
  /\ editingOffer' = offer
  /\ formOpen' = TRUE
  /\ OfferFormFresh(offer)
  /\ UNCHANGED <<merchant, offersLoading, newFormOpen, newVars, oOrphans>>
  /\ UNCHANGED extVars

\* onClose of NewOfferForm; its buttons are hidden while the scaling modal shows
closeNewForm ==
  /\ NewFormMounted
  /\ ~showScalingModal
  /\ newFormOpen' = FALSE
  /\ UnmountForms(editingOffer)
  /\ UNCHANGED <<merchant, offersLoading, formOpen, editingOffer>>
  /\ UNCHANGED extVars

\* onClose of OfferForm
closeForm ==
  /\ OfferFormMounted
  /\ editingOffer' = NoOffer
  /\ formOpen' = FALSE
  /\ UnmountForms(NoOffer)
  /\ UNCHANGED <<merchant, offersLoading, newFormOpen>>
  /\ UNCHANGED extVars

----------------------------------------------------------------------------
(* NewOfferForm *)

\* the inputs are hidden (class `hidden`) while the scaling modal shows
NewOfferForm_handleChange(field, value) ==
  /\ NewFormMounted
  /\ ~showScalingModal
  /\ nLoading => nChanges < MaxChangesWhileSaving
  /\ LET next == [nFormData EXCEPT ![field] = value]
     IN /\ nFormData' = next
        /\ nErrors' = validateForm(next)
  /\ nChanges' = IF nLoading THEN nChanges + 1 ELSE nChanges
  /\ UNCHANGED <<pageVars, nLoading, showScalingModal, scalingOffers, nRequest,
                 nToggles, nOrphans, offerVars>>
  /\ UNCHANGED extVars

\* createOffers up to its await: setLoading(true) and the insert call
createOffers(offersData) ==
  /\ nLoading' = TRUE
  /\ nRequest' = [op |-> "insert", records |-> offersData]
  /\ nChanges' = 0

\* handleSubmit storing the new ladder with the flags of the ladder it replaces
NewOfferForm_handleSubmit_keepFlags ==
  /\ NewFormMounted
  /\ ~showScalingModal
  /\ ~nLoading
  /\ LET validationErrors == validateForm(nFormData)
         offers == generateScalingOffers(merchant, nFormData)
     IN /\ nErrors' = validationErrors
        /\ IF HasKeys(validationErrors)
           THEN UNCHANGED <<nLoading, showScalingModal, scalingOffers, nRequest,
                            nChanges, nToggles>>
           ELSE IF Len(offers) > 0
                THEN /\ scalingOffers' =
                          [k \in 1..Len(offers) |->
                             [offers[k] EXCEPT !.selected =
                                IF k <= Len(scalingOffers)
                                THEN scalingOffers[k].selected ELSE TRUE]]
                     /\ showScalingModal' = TRUE
                     /\ nToggles' = 0
                     /\ UNCHANGED <<nLoading, nRequest, nChanges>>
                ELSE /\ createOffers(OffersData(merchant, nFormData, <<>>))
                     /\ UNCHANGED <<showScalingModal, scalingOffers, nToggles>>
  /\ UNCHANGED <<pageVars, nFormData, nOrphans, offerVars>>
  /\ UNCHANGED extVars

\* the submit button is disabled while loading and hidden behind the modal;
\* NewFormMounted implies the merchant that the handler tests for
NewOfferForm_handleSubmit ==
  /\ NewFormMounted
  /\ ~showScalingModal
  /\ ~nLoading
  /\ LET validationErrors == validateForm(nFormData)
         offers == generateScalingOffers(merchant, nFormData)
     IN /\ nErrors' = validationErrors
        /\ IF HasKeys(validationErrors)
           THEN UNCHANGED <<nLoading, showScalingModal, scalingOffers, nRequest,
                            nChanges, nToggles>>
           ELSE IF Len(offers) > 0
                THEN /\ scalingOffers' = offers
                     /\ showScalingModal' = TRUE
                     /\ nToggles' = 0
                     /\ UNCHANGED <<nLoading, nRequest, nChanges>>
                ELSE /\ createOffers(OffersData(merchant, nFormData, <<>>))
                     /\ UNCHANGED <<showScalingModal, scalingOffers, nToggles>>
  /\ UNCHANGED <<pageVars, nFormData, nOrphans, offerVars>>
  /\ UNCHANGED extVars

toggleScalingOffer(index) ==
  /\ NewFormMounted
  /\ showScalingModal
  /\ index \in 1..Len(scalingOffers)
  /\ nToggles < MaxToggles
  /\ scalingOffers' = [scalingOffers EXCEPT ![index].selected = ~@]
  /\ nToggles' = nToggles + 1
  /\ UNCHANGED <<pageVars, nFormData, nErrors, nLoading, showScalingModal, nRequest,
                 nChanges, nOrphans, offerVars>>
  /\ UNCHANGED extVars

\* both modal buttons are disabled while loading
handleScalingConfirm ==
  /\ NewFormMounted
  /\ showScalingModal
  /\ ~nLoading
  /\ LET selectedOffers == SelectSeq(scalingOffers, IsSelected)
     IN createOffers(OffersData(merchant, nFormData, selectedOffers))
  /\ UNCHANGED <<pageVars, nFormData, nErrors, showScalingModal, scalingOffers,
                 nToggles, nOrphans, offerVars>>
  /\ UNCHANGED extVars

\* handleScalingCancel with the body of handleScalingConfirm
handleScalingCancel_sendsSelected ==
  /\ NewFormMounted
  /\ showScalingModal
  /\ ~nLoading
  /\ LET selectedOffers == SelectSeq(scalingOffers, IsSelected)
     IN createOffers(OffersData(merchant, nFormData, selectedOffers))
  /\ UNCHANGED <<pageVars, nFormData, nErrors, showScalingModal, scalingOffers,
                 nToggles, nOrphans, offerVars>>
  /\ UNCHANGED extVars

handleScalingCancel ==
  /\ NewFormMounted
  /\ showScalingModal
  /\ ~nLoading
  /\ createOffers(OffersData(merchant, nFormData, <<>>))
  /\ UNCHANGED <<pageVars, nFormData, nErrors, showScalingModal, scalingOffers,
                 nToggles, nOrphans, offerVars>>
  /\ UNCHANGED extVars

\* the insert succeeded: onSuccess() closes the form and refetches the list
NewOfferForm_insertOk ==
  /\ NewFormMounted
  /\ nLoading
  /\ newFormOpen' = FALSE
  /\ offersLoading' = TRUE
  /\ NewFormFresh
  /\ OfferFormFresh(editingOffer)
  /\ UNCHANGED <<merchant, formOpen, editingOffer, nOrphans, oOrphans>>
  /\ UNCHANGED extVars

\* the insert failed: setLoading(false), then the modal (if any) is closed
NewOfferForm_insertError ==
  /\ NewFormMounted
  /\ nLoading
  /\ nLoading' = FALSE
  /\ nRequest' = NoRequest
  /\ nChanges' = 0
  /\ showScalingModal' = FALSE
  /\ nToggles' = 0
  /\ UNCHANGED <<pageVars, nFormData, nErrors, scalingOffers, nOrphans, offerVars>>
  /\ UNCHANGED extVars

\* an insert of an unmounted NewOfferForm succeeded: its onSuccess() still runs
NewOfferForm_orphanOk ==
  /\ nOrphans > 0
  /\ newFormOpen' = FALSE
  /\ offersLoading' = TRUE
  /\ NewFormFresh
  /\ OfferFormFresh(editingOffer)
  /\ nOrphans' = IF nLoading THEN nOrphans ELSE nOrphans - 1
  /\ oOrphans' = IF oLoading THEN oOrphans + 1 ELSE oOrphans
  /\ UNCHANGED <<merchant, formOpen, editingOffer>>
  /\ UNCHANGED extVars

\* an insert of an unmounted NewOfferForm failed: nothing but a toast
NewOfferForm_orphanError ==
  /\ nOrphans > 0
  /\ nOrphans' = nOrphans - 1
  /\ UNCHANGED <<pageVars, nFormData, nErrors, nLoading, showScalingModal,
                 scalingOffers, nRequest, nChanges, nToggles, offerVars>>
  /\ UNCHANGED extVars

----------------------------------------------------------------------------
(* OfferForm *)

OfferForm_handleChange(field, value) ==
  /\ OfferFormMounted
  /\ oLoading => oChanges < MaxChangesWhileSaving
  /\ LET next == [oFormData EXCEPT ![field] = value]
     IN /\ oFormData' = next
        /\ oErrors' = computeErrors(next)
  /\ oChanges' = IF oLoading THEN oChanges + 1 ELSE oChanges
  /\ UNCHANGED <<pageVars, newVars, oLoading, oRequest, oOrphans>>
  /\ UNCHANGED extVars

\* the submit button is disabled while loading; the page opens OfferForm through
\* openEditForm only, the insert branch is kept for an OfferForm without offer
OfferForm_handleSubmit ==
  /\ OfferFormMounted
  /\ ~oLoading
  /\ LET nextErrors == computeErrors(oFormData)
         payload == OfferPayload(merchant, oFormData)
     IN /\ oErrors' = nextErrors
        /\ IF HasKeys(nextErrors)
           THEN UNCHANGED <<oLoading, oRequest, oChanges>>
           ELSE /\ oLoading' = TRUE
                /\ oChanges' = 0
                /\ oRequest' = IF editingOffer # NoOffer
                               THEN [op |-> "update", id |-> editingOffer.id,
                                     records |-> <<payload>>]
                               ELSE [op |-> "insert", id |-> 0, records |-> <<payload>>]
  /\ UNCHANGED <<pageVars, newVars, oFormData, oOrphans>>
  /\ UNCHANGED extVars

\* the call succeeded: onSuccess() closes the form and refetches the list
OfferForm_saveOk ==
  /\ OfferFormMounted
  /\ oLoading
  /\ editingOffer' = NoOffer
  /\ formOpen' = FALSE
  /\ offersLoading' = TRUE
  /\ NewFormFresh
  /\ OfferFormFresh(NoOffer)
  /\ UNCHANGED <<merchant, newFormOpen, nOrphans, oOrphans>>
  /\ UNCHANGED extVars

OfferForm_saveError ==
  /\ OfferFormMounted
  /\ oLoading
  /\ oLoading' = FALSE
  /\ oRequest' = NoRequest
  /\ oChanges' = 0
  /\ UNCHANGED <<pageVars, newVars, oFormData, oErrors, oOrphans>>
  /\ UNCHANGED extVars

\* a call of an unmounted OfferForm succeeded: its onSuccess() still runs
OfferForm_orphanOk ==
  /\ oOrphans > 0
  /\ editingOffer' = NoOffer
  /\ formOpen' = FALSE
  /\ offersLoading' = TRUE
  /\ NewFormFresh
  /\ OfferFormFresh(NoOffer)
  /\ nOrphans' = IF nLoading THEN nOrphans + 1 ELSE nOrphans
  /\ oOrphans' = IF oLoading THEN oOrphans ELSE oOrphans - 1
  /\ UNCHANGED <<merchant, newFormOpen>>
  /\ UNCHANGED extVars

OfferForm_orphanError ==
  /\ oOrphans > 0
  /\ oOrphans' = oOrphans - 1
  /\ UNCHANGED <<pageVars, newVars, oFormData, oErrors, oLoading, oRequest, oChanges>>
  /\ UNCHANGED extVars

----------------------------------------------------------------------------
(* The offers page with its forms *)

NewOfferForm_change ==
  \/ \E v \in DiscountTypes : NewOfferForm_handleChange("discount_type", v)
  \/ \E v \in ValueInputs : NewOfferForm_handleChange("discount_value", v)
  \/ \E v \in TierInputs : NewOfferForm_handleChange("min_followers", v)
  \/ \E v \in DateInputs : NewOfferForm_handleChange("start_at", v)
  \/ \E v \in DateInputs : NewOfferForm_handleChange("end_at", v)

OfferForm_change ==
  \/ \E v \in TitleInputs : OfferForm_handleChange("title", v)
  \/ \E v \in DescriptionInputs : OfferForm_handleChange("description", v)
  \/ \E v \in DiscountTypes : OfferForm_handleChange("discount_type", v)
  \/ \E v \in ValueInputs : OfferForm_handleChange("discount_value", v)
  \/ \E v \in OfferFormFollowerInputs : OfferForm_handleChange("min_followers", v)
  \/ \E v \in DateInputs : OfferForm_handleChange("start_at", v)
  \/ \E v \in DateInputs : OfferForm_handleChange("end_at", v)
  \/ OfferForm_handleChange("is_active", ~oFormData.is_active)

Next ==
  \/ \E m \in Merchants \cup {NoMerchant} : AuthMerchantChanged(m)
  \/ FetchOffersDone
  \/ openNewCreateForm
  \/ \E offer \in StoredOffers : openEditForm(offer)
  \/ closeNewForm
  \/ closeForm
  \/ NewOfferForm_change
  \/ NewOfferForm_handleSubmit
  \/ \E index \in 1..Len(FOLLOWER_TIERS) : toggleScalingOffer(index)
  \/ handleScalingConfirm
  \/ handleScalingCancel
  \/ NewOfferForm_insertOk
  \/ NewOfferForm_insertError
  \/ NewOfferForm_orphanOk
  \/ NewOfferForm_orphanError
  \/ OfferForm_change
  \/ OfferForm_handleSubmit
  \/ OfferForm_saveOk
  \/ OfferForm_saveError
  \/ OfferForm_orphanOk
  \/ OfferForm_orphanError

Spec == Init /\ [][Next]_vars

----------------------------------------------------------------------------
(* The validator and the scaler over their input space: a form holding any  *)
(* candidate offer is submitted once.                                       *)

MinFnValue == 0 - 5
MaxFnValue == 155

FnValues == MinFnValue..MaxFnValue

\* <year, month, day> of the dates the candidate offers carry
FnDateTriples == {<<2024, 12, 31>>, <<2025, 1, 9>>, <<2025, 1, 10>>}

FnDates == {EmptyStr} \cup {IsoDate(t[1], t[2], t[3]) : t \in FnDateTriples}
FnTimestamps == {Null} \cup {IsoTimestamp(t[1], t[2], t[3]) : t \in FnDateTriples}

\* the tier thresholds and values that are no threshold
FnFollowers == TierValues \cup {0, 750}

FnNewFormData ==
  [discount_type : DiscountTypes, discount_value : FnValues,
   min_followers : FnFollowers, start_at : FnDates, end_at : FnDates]

FnOffers ==
  [id : {1}, title : {<<CharA>>}, description : {Null}, discount_type : DiscountTypes,
   discount_value : FnValues, min_followers : {500}, start_at : FnTimestamps,
   end_at : FnTimestamps, is_active : {TRUE}]

InitFn ==
  /\ merchant = ActiveMerchant
  /\ offersLoading = FALSE
  /\ \/ /\ newFormOpen = TRUE
        /\ formOpen = FALSE
        /\ editingOffer = NoOffer
        /\ nFormData \in FnNewFormData
     \/ /\ newFormOpen = FALSE
        /\ formOpen = TRUE
        /\ editingOffer \in FnOffers
        /\ nFormData = NewInitialFormData
  /\ nErrors = validateForm(nFormData)
  /\ nLoading = FALSE
  /\ showScalingModal = FALSE
  /\ scalingOffers = <<>>
  /\ nRequest = NoRequest
  /\ nChanges = 0
  /\ nToggles = 0
  /\ nOrphans = 0
  /\ oFormData = initialData(editingOffer)
  /\ oErrors = IF editingOffer # NoOffer THEN computeErrors(oFormData) ELSE EmptyMap
  /\ oLoading = FALSE
  /\ oRequest = NoRequest
  /\ oChanges = 0
  /\ oOrphans = 0
  /\ ExtInitial

NextFn ==
  \/ NewOfferForm_handleSubmit
  \/ OfferForm_handleSubmit

SpecFn == InitFn /\ [][NextFn]_vars

----------------------------------------------------------------------------
(* The middleware (src/unnamed/part_011), request after request.  The file    *)
(* holds two middleware sources: the one whose matcher is '/dashboard/:path*' *)
(* (lines 49-99) and the one that matches every page path (lines 103-225).    *)

\* the offers page before anything happened on it
OffersInitial ==
  /\ merchant = NoMerchant
  /\ offersLoading = TRUE
  /\ newFormOpen = FALSE
  /\ formOpen = FALSE
  /\ editingOffer = NoOffer
  /\ nFormData = NewInitialFormData
  /\ nErrors = EmptyMap
  /\ nLoading = FALSE
  /\ showScalingModal = FALSE
  /\ scalingOffers = <<>>
  /\ nRequest = NoRequest
  /\ nChanges = 0
  /\ nToggles = 0
  /\ nOrphans = 0
  /\ oFormData = initialData(NoOffer)
  /\ oErrors = EmptyMap
  /\ oLoading = FALSE
  /\ oRequest = NoRequest
  /\ oChanges = 0
  /\ oOrphans = 0

MwVariants == {"dashboardMatcher", "allPaths"}
MwEnvs == [url : BOOLEAN, anonKey : BOOLEAN]

PathSignup == <<"/", "s", "i", "g", "n", "u", "p">>
PathDashboardBilling == PathDashboard \o <<"/", "b", "i", "l", "l", "i", "n", "g">>
PathDashboardProfile == PathDashboard \o <<"/", "p", "r", "o", "f", "i", "l", "e">>
PathFavicon == <<"/", "f", "a", "v", "i", "c", "o", "n", ".", "i", "c", "o">>
PathNextStatic == <<"/", "_", "n", "e", "x", "t", "/", "s", "t", "a", "t", "i", "c">>
PathNextImage == <<"/", "_", "n", "e", "x", "t", "/", "i", "m", "a", "g", "e">>

MwPaths == {PathHome, PathLogin, PathSignup, PathFavicon,
            PathDashboard, PathDashboardOffers, PathDashboardBilling,
            PathDashboardProfile}

\* config.matcher of either source
MatcherMatches(variant, path) ==
  IF variant = "dashboardMatcher"
  THEN path = PathDashboard \/ StartsWith(path, PathDashboard \o <<"/">>)
  ELSE /\ ~StartsWith(path, PathNextStatic)
       /\ ~StartsWith(path, PathNextImage)
       /\ ~StartsWith(path, PathFavicon)

\* NextResponse.next() and NextResponse.redirect(new URL(to, req.url))
ResponseNext(cleared) == [kind |-> "next", to |-> <<>>, cookiesCleared |-> cleared]
ResponseRedirect(to) == [kind |-> "redirect", to |-> to, cookiesCleared |-> FALSE]

\* lines 49-79: up to `await supabase.auth.getSession()`
middleware_dashboardMatcher(path) ==
  /\ mwVariant = "dashboardMatcher"
  /\ mwPc # "awaitSession"
  /\ MatcherMatches(mwVariant, path)
  /\ mwPath' = path
  /\ mwSession' = "none"
  /\ IF ~StartsWith(path, PathDashboard)
     THEN /\ mwResponse' = ResponseNext(FALSE)
          /\ mwPc' = "done"
     ELSE /\ mwResponse' = NoResponse
          /\ mwPc' = "awaitSession"
  /\ UNCHANGED <<mwVariant, mwEnv, notMwVars>>

\* lines 77-94: getSession settled; with an error its data.session is null
middleware_dashboardMatcher_resume(outcome) ==
  /\ mwVariant = "dashboardMatcher"
  /\ mwPc = "awaitSession"
  /\ mwSession' = outcome
  /\ LET session == outcome = "session"
     IN mwResponse' = IF ~session /\ StartsWith(mwPath, PathDashboard)
                      THEN ResponseRedirect(PathLogin)
                      ELSE ResponseNext(FALSE)
  /\ mwPc' = "done"
  /\ UNCHANGED <<mwVariant, mwEnv, mwPath, notMwVars>>

\* lines 103-169: up to `await Promise.race([sessionPromise, timeoutPromise])`
middleware_allPaths(path) ==
  /\ mwVariant = "allPaths"
  /\ mwPc # "awaitSession"
  /\ MatcherMatches(mwVariant, path)
  /\ mwPath' = path
  /\ mwSession' = "none"
  /\ IF ~mwEnv.url \/ ~mwEnv.anonKey
     THEN /\ mwResponse' = ResponseNext(FALSE)
          /\ mwPc' = "done"
     ELSE /\ mwResponse' = NoResponse
          /\ mwPc' = "awaitSession"
  /\ UNCHANGED <<mwVariant, mwEnv, notMwVars>>

\* lines 166-206: the race settled: a session, none, an error result, or the
\* rejection of the 5 second timeout
middleware_allPaths_resume(outcome) ==
  /\ mwVariant = "allPaths"
  /\ mwPc = "awaitSession"
  /\ mwSession' = outcome
  /\ LET session == outcome = "session"
         dashboard == StartsWith(mwPath, PathDashboard)
     IN mwResponse' =
          IF outcome = "error" \/ outcome = "timeout"
          THEN IF dashboard THEN ResponseRedirect(PathHome) ELSE ResponseNext(TRUE)
          ELSE IF ~session /\ dashboard THEN ResponseRedirect(PathHome)
          ELSE IF session /\ mwPath = PathHome THEN ResponseRedirect(PathDashboard)
          ELSE ResponseNext(FALSE)
  /\ mwPc' = "done"
  /\ UNCHANGED <<mwVariant, mwEnv, mwPath, notMwVars>>

InitMiddleware ==
  /\ OffersInitial
  /\ AuthProviderInitial
  /\ BoundaryInitial
  /\ mwVariant \in MwVariants
  /\ mwEnv \in MwEnvs
  /\ MiddlewareIdle
  /\ MoreInitial

NextMiddleware ==
  \/ \E path \in MwPaths : middleware_dashboardMatcher(path)
  \/ \E outcome \in {"session", "noSession", "error"} :
       middleware_dashboardMatcher_resume(outcome)
  \/ \E path \in MwPaths : middleware_allPaths(path)
  \/ \E outcome \in {"session", "noSession", "error", "timeout"} :
       middleware_allPaths_resume(outcome)

SpecMiddleware == InitMiddleware /\ [][NextMiddleware]_vars

----------------------------------------------------------------------------
(* AuthProvider (src/unnamed/part_009, lines 20-211): the initial session     *)
(* check, the auth state change callback and loadAuthData.  A call of the     *)
(* auth client or of the store may resolve, reject or never settle.           *)

AuthUsers == {1, 2}

\* auth state change events delivered to one provider
MaxAuthEvents == 2

\* what Promise.all([getUserRecord, getMerchantProfile]) settles with: a
\* rejection, or a user record (or null) and a merchant profile (null, one whose
\* logo needs no signing, one whose logo_url is a storage path)
FetchResults ==
  {[kind |-> "reject", userData |-> FALSE, profile |-> "null"]}
    \cup [kind : {"ok"}, userData : BOOLEAN, profile : {"null", "plain", "path"}]

\* loadAuthData without the test of loadingDataRef
loadAuthData_noGuard(authUser) ==
  /\ loadingDataRef' = TRUE
  /\ apLoads' = Append(apLoads, [user |-> authUser, pc |-> "fetch",
                                 userData |-> FALSE, profile |-> "null"])

\* loadAuthData, lines 28-41: up to `await Promise.all(...)`
loadAuthData(authUser) ==
  IF loadingDataRef
  THEN UNCHANGED <<loadingDataRef, apLoads>>
  ELSE /\ loadingDataRef' = TRUE
       /\ apLoads' = Append(apLoads, [user |-> authUser, pc |-> "fetch",
                                      userData |-> FALSE, profile |-> "null"])

\* a sequence without its i-th element
RemoveAt(seq, i) == SubSeq(seq, 1, i - 1) \o SubSeq(seq, i + 1, Len(seq))

\* setUserRecord(userData); setMerchant(enhancedMerchant); a state setter of an
\* unmounted component has no effect
SetAuthData(authUser, userData, logo) ==
  IF apMounted
  THEN /\ apUserRecord' = IF userData THEN authUser ELSE 0
       /\ apMerchant' = IF logo = "null" THEN NoProfile
                        ELSE [owner |-> authUser, logo |-> logo]
  ELSE UNCHANGED <<apUserRecord, apMerchant>>

\* the setTimeout(..., 50) of the effect fires: getInitialSession runs up to
\* `await Promise.race([sessionPromise, timeoutPromise])`
AuthProvider_initTimer ==
  /\ apInit = "timer"
  /\ apInit' = "race"
  /\ UNCHANGED <<apMounted, apLoading, apUser, apUserRecord, apMerchant,
                 loadingDataRef, apDeferred, apLoads, apEvents>>
  /\ UNCHANGED notApVars

\* getSession resolved with a session: lines 97-112, then finally
getInitialSession_session(authUser) ==
  /\ apInit = "race"
  /\ apInit' = "done"
  /\ IF apMounted
     THEN /\ apUser' = authUser
          /\ apDeferred' = Append(apDeferred, authUser)
          /\ apLoading' = FALSE
     ELSE UNCHANGED <<apUser, apDeferred, apLoading>>
  /\ UNCHANGED <<apMounted, apUserRecord, apMerchant, loadingDataRef, apLoads, apEvents>>
  /\ UNCHANGED notApVars

\* getSession resolved without session and without error: lines 113-115, finally
getInitialSession_noSession ==
  /\ apInit = "race"
  /\ apInit' = "done"
  /\ apLoading' = IF apMounted THEN FALSE ELSE apLoading
  /\ UNCHANGED <<apMounted, apUser, apUserRecord, apMerchant, loadingDataRef,
                 apDeferred, apLoads, apEvents>>
  /\ UNCHANGED notApVars

\* getSession resolved with an error: lines 87-90, up to `await signOut()`
getInitialSession_error ==
  /\ apInit = "race"
  /\ apInit' = "signOut"
  /\ UNCHANGED <<apMounted, apLoading, apUser, apUserRecord, apMerchant,
                 loadingDataRef, apDeferred, apLoads, apEvents>>
  /\ UNCHANGED notApVars

\* the awaited signOut settled: resolved (lines 91-94, finally) or rejected
\* (catch, lines 116-123, finally)
getInitialSession_signOutSettled(resolved) ==
  /\ apInit = "signOut"
  /\ apInit' = "done"
  /\ apLoading' = IF apMounted THEN FALSE ELSE apLoading
  /\ IF ~resolved /\ apMounted
     THEN /\ apUser' = 0
          /\ apUserRecord' = 0
          /\ apMerchant' = NoProfile
     ELSE UNCHANGED <<apUser, apUserRecord, apMerchant>>
  /\ UNCHANGED <<apMounted, loadingDataRef, apDeferred, apLoads, apEvents>>
  /\ UNCHANGED notApVars

\* the 8 second timer rejects the race before getSession settles: catch, finally
getInitialSession_timeout ==
  /\ apInit = "race"
  /\ apInit' = "done"
  /\ apLoading' = IF apMounted THEN FALSE ELSE apLoading
  /\ IF apMounted
     THEN /\ apUser' = 0
          /\ apUserRecord' = 0
          /\ apMerchant' = NoProfile
     ELSE UNCHANGED <<apUser, apUserRecord, apMerchant>>
  /\ UNCHANGED <<apMounted, loadingDataRef, apDeferred, apLoads, apEvents>>
  /\ UNCHANGED notApVars

\* the onAuthStateChange callback, lines 138-164; authUser = 0: no session.user
onAuthStateChange(authUser) ==
  /\ apMounted
  /\ apEvents < MaxAuthEvents
  /\ apEvents' = apEvents + 1
  /\ IF authUser # 0
     THEN /\ apUser' = authUser
          /\ apDeferred' = Append(apDeferred, authUser)
          /\ UNCHANGED <<apUserRecord, apMerchant>>
     ELSE /\ apUser' = 0
          /\ apUserRecord' = 0
          /\ apMerchant' = NoProfile
          /\ UNCHANGED apDeferred
  /\ apLoading' = FALSE
  /\ UNCHANGED <<apMounted, loadingDataRef, apInit, apLoads>>
  /\ UNCHANGED notApVars

\* the oldest setTimeout(..., 100) callback runs: lines 105-112 and 148-154
AuthProvider_deferredTimer ==
  /\ apDeferred # <<>>
  /\ apDeferred' = Tail(apDeferred)
  /\ IF apMounted
     THEN loadAuthData(Head(apDeferred))
     ELSE UNCHANGED <<loadingDataRef, apLoads>>
  /\ UNCHANGED <<apMounted, apLoading, apUser, apUserRecord, apMerchant, apInit, apEvents>>
  /\ UNCHANGED notApVars

\* Promise.all of execution i settled: lines 43-64
loadAuthData_fetched(i, result) ==
  /\ i \in 1..Len(apLoads)
  /\ apLoads[i].pc = "fetch"
  /\ IF result.kind = "ok" /\ apMounted /\ result.profile = "path"
     THEN /\ apLoads' = [apLoads EXCEPT ![i] = [@ EXCEPT !.pc = "logo",
                                                         !.userData = result.userData,
                                                         !.profile = result.profile]]
          /\ UNCHANGED <<loadingDataRef, apUserRecord, apMerchant>>
     ELSE /\ apLoads' = RemoveAt(apLoads, i)
          /\ loadingDataRef' = FALSE
          /\ IF result.kind = "ok" /\ apMounted
             THEN SetAuthData(apLoads[i].user, result.userData,
                              IF result.profile = "null" THEN "null" ELSE "none")
             ELSE UNCHANGED <<apUserRecord, apMerchant>>
  /\ UNCHANGED <<apMounted, apLoading, apUser, apInit, apDeferred, apEvents>>
  /\ UNCHANGED notApVars

\* getMerchantLogoUrl of execution i settled: lines 47-64
loadAuthData_logoSettled(i, signed) ==
  /\ i \in 1..Len(apLoads)
  /\ apLoads[i].pc = "logo"
  /\ apLoads' = RemoveAt(apLoads, i)
  /\ loadingDataRef' = FALSE
  /\ SetAuthData(apLoads[i].user, apLoads[i].userData,
                 IF signed THEN "signed" ELSE "path")
  /\ UNCHANGED <<apMounted, apLoading, apUser, apInit, apDeferred, apEvents>>
  /\ UNCHANGED notApVars

\* the cleanup of the effect, lines 167-172
AuthProvider_unmount ==
  /\ apMounted
  /\ apMounted' = FALSE
  /\ apInit' = IF apInit = "timer" THEN "off" ELSE apInit
  /\ UNCHANGED <<apLoading, apUser, apUserRecord, apMerchant, loadingDataRef,
                 apDeferred, apLoads, apEvents>>
  /\ UNCHANGED notApVars

InitAuth ==
  /\ OffersInitial
  /\ MiddlewareInitial
  /\ BoundaryInitial
  /\ AuthProviderInitial
  /\ MoreInitial

NextAuth ==
  \/ AuthProvider_initTimer
  \/ \E authUser \in AuthUsers : getInitialSession_session(authUser)
  \/ getInitialSession_noSession
  \/ getInitialSession_error
  \/ \E resolved \in BOOLEAN : getInitialSession_signOutSettled(resolved)
  \/ getInitialSession_timeout
  \/ \E authUser \in AuthUsers \cup {0} : onAuthStateChange(authUser)
  \/ AuthProvider_deferredTimer
  \/ \E i \in 1..(MaxAuthEvents + 1), result \in FetchResults :
       loadAuthData_fetched(i, result)
  \/ \E i \in 1..(MaxAuthEvents + 1), signed \in BOOLEAN :
       loadAuthData_logoSettled(i, signed)
  \/ AuthProvider_unmount

SpecAuth == InitAuth /\ [][NextAuth]_vars

\* timers fire and a handler whose awaited call settled runs on; whether a call
\* of the auth client or of the store settles is up to the network
SpecAuthFair ==
  /\ SpecAuth
  /\ WF_vars(AuthProvider_initTimer)
  /\ WF_vars(getInitialSession_timeout)
  /\ WF_vars(AuthProvider_deferredTimer)

----------------------------------------------------------------------------
(* AuthErrorBoundary (src/components/AuthErrorBoundary.tsx)                   *)

\* the texts getDerivedStateFromError and componentDidCatch look for; an error
\* message is the set of those it includes
AuthErrorTexts == {"AuthApiError", "Invalid Refresh Token", "JWT", "session",
                   "authentication"}

ErrorMessages ==
  {{}} \cup {{text} : text \in AuthErrorTexts}
       \cup {{"AuthApiError", "Invalid Refresh Token"}}

isAuthError(message) == \E text \in AuthErrorTexts : text \in message

maxRetries == 3

\* presses of "Try Again" on one boundary
MaxRetryPresses == 4

\* the children throw while rendering: getDerivedStateFromError (lines 32-51),
\* then componentDidCatch (lines 53-60) with handleRefreshTokenError up to its
\* await (lines 62-65)
childrenThrow(message) ==
  /\ ebStatus = "mounted"
  /\ ~ebHasError
  /\ IF isAuthError(message)
     THEN /\ ebHasError' = TRUE
          /\ ebError' = <<message>>
          /\ ebRetryCount' = 0
          /\ ebSignOuts' = IF "Invalid Refresh Token" \in message
                           THEN ebSignOuts + 1 ELSE ebSignOuts
          /\ UNCHANGED ebStatus
     ELSE /\ ebStatus' = "rethrown"
          /\ UNCHANGED <<ebHasError, ebError, ebRetryCount, ebSignOuts>>
  /\ UNCHANGED <<ebRedirectTimers, ebPresses>>
  /\ UNCHANGED notEbVars

\* "Try Again" of the fallback: retry, lines 84-99
retry ==
  /\ ebStatus = "mounted"
  /\ ebHasError
  /\ ebPresses < MaxRetryPresses
  /\ ebPresses' = ebPresses + 1
  /\ IF ebRetryCount >= maxRetries
     THEN /\ ebStatus' = "redirected"
          /\ UNCHANGED <<ebHasError, ebError, ebRetryCount>>
     ELSE /\ ebHasError' = FALSE
          /\ ebError' = <<>>
          /\ ebRetryCount' = ebRetryCount + 1
          /\ UNCHANGED ebStatus
  /\ UNCHANGED <<ebSignOuts, ebRedirectTimers>>
  /\ UNCHANGED notEbVars

\* "Go to Login" of the default fallback, line 141
goToLogin ==
  /\ ebStatus = "mounted"
  /\ ebHasError
  /\ ebStatus' = "redirected"
  /\ UNCHANGED <<ebHasError, ebError, ebRetryCount, ebSignOuts, ebRedirectTimers,
                 ebPresses>>
  /\ UNCHANGED notEbVars

\* handleRefreshTokenError after `await supabase.auth.signOut()`: resolved
\* (lines 67-76) or rejected (lines 77-81)
handleRefreshTokenError_signOutSettled(resolved) ==
  /\ ebStatus # "redirected"
  /\ ebSignOuts > 0
  /\ ebSignOuts' = ebSignOuts - 1
  /\ IF resolved
     THEN /\ ebRedirectTimers' = ebRedirectTimers + 1
          /\ UNCHANGED ebStatus
     ELSE /\ ebStatus' = "redirected"
          /\ UNCHANGED ebRedirectTimers
  /\ UNCHANGED <<ebHasError, ebError, ebRetryCount, ebPresses>>
  /\ UNCHANGED notEbVars

\* the setTimeout(..., 1000) callback of handleRefreshTokenError, lines 74-76
handleRefreshTokenError_timer ==
  /\ ebStatus # "redirected"
  /\ ebRedirectTimers > 0
  /\ ebRedirectTimers' = ebRedirectTimers - 1
  /\ ebStatus' = "redirected"
  /\ UNCHANGED <<ebHasError, ebError, ebRetryCount, ebSignOuts, ebPresses>>
  /\ UNCHANGED notEbVars

InitBoundary ==
  /\ OffersInitial
  /\ MiddlewareInitial
  /\ AuthProviderInitial
  /\ BoundaryInitial
  /\ MoreInitial

NextBoundary ==
  \/ \E message \in ErrorMessages : childrenThrow(message)
  \/ retry
  \/ goToLogin
  \/ \E resolved \in BOOLEAN : handleRefreshTokenError_signOutSettled(resolved)
  \/ handleRefreshTokenError_timer

SpecBoundary == InitBoundary /\ [][NextBoundary]_vars

----------------------------------------------------------------------------
(* RateLimiter (src/unnamed/part_000, lines 197-243)                          *)

\* the components before the rate limiter, while a later one is explored
FirstInitial ==
  /\ OffersInitial
  /\ MiddlewareInitial
  /\ AuthProviderInitial
  /\ BoundaryInitial

\* isAllowed calls on one limiter
MaxRlCalls == 6

\* the latest value of Date.now(), in quarters of an hour
MaxRlTime == 5

\* loginRateLimiter and signupRateLimiter (lines 241-242), windowMs in quarters
\* of an hour
RateLimiterConfigs ==
  {[maxAttempts |-> 5, windowMs |-> 1], [maxAttempts |-> 3, windowMs |-> 4]}

\* "Reset if window has passed", line 216, at the boundary too
windowPassed_atBoundary(now, record) == now - record.lastAttempt >= rlWindowMs

\* "Reset if window has passed", line 216
windowPassed(now, record) == now - record.lastAttempt > rlWindowMs

\* isAllowed, lines 207-226
isAllowed(identifier) ==
  /\ rlCalls < MaxRlCalls
  /\ rlCalls' = rlCalls + 1
  /\ LET now == rlNow
         record == rlAttempts[identifier]
         fresh == record = NoRecord \/ windowPassed(now, record)
         stored == IF fresh
                   THEN [count |-> 1, lastAttempt |-> now]
                   ELSE [count |-> record.count + 1, lastAttempt |-> now]
         result == fresh \/ stored.count <= rlMaxAttempts
     IN /\ rlAttempts' = [rlAttempts EXCEPT ![identifier] = stored]
        /\ rlAllowed' = IF result
                        THEN [rlAllowed EXCEPT ![identifier] = Append(@, now)]
                        ELSE rlAllowed
  /\ UNCHANGED <<rlMaxAttempts, rlWindowMs, rlNow>>
  /\ UNCHANGED notRlVars

\* reset, lines 236-238
reset(identifier) ==
  /\ rlAttempts[identifier] # NoRecord
  /\ rlAttempts' = [rlAttempts EXCEPT ![identifier] = NoRecord]
  /\ rlAllowed' = [rlAllowed EXCEPT ![identifier] = <<>>]
  /\ UNCHANGED <<rlMaxAttempts, rlWindowMs, rlNow, rlCalls>>
  /\ UNCHANGED notRlVars

\* time passes: Date.now() never goes back
RateLimiter_clock ==
  /\ rlNow < MaxRlTime
  /\ rlNow' = rlNow + 1
  /\ UNCHANGED <<rlMaxAttempts, rlWindowMs, rlAttempts, rlAllowed, rlCalls>>
  /\ UNCHANGED notRlVars

InitRateLimiter ==
  /\ FirstInitial
  /\ \E config \in RateLimiterConfigs :
       /\ rlMaxAttempts = config.maxAttempts
       /\ rlWindowMs = config.windowMs
  /\ rlNow = 0
  /\ rlAttempts = [identifier \in RateLimiterIds |-> NoRecord]
  /\ rlAllowed = [identifier \in RateLimiterIds |-> <<>>]
  /\ rlCalls = 0
  /\ TimeoutManagerInitial
  /\ SignupInitial
  /\ LanguageInitial

NextRateLimiter ==
  \/ \E identifier \in RateLimiterIds : isAllowed(identifier)
  \/ \E identifier \in RateLimiterIds : reset(identifier)
  \/ RateLimiter_clock

SpecRateLimiter == InitRateLimiter /\ [][NextRateLimiter]_vars

----------------------------------------------------------------------------
(* AuthTimeoutManager (src/lib/storage.ts, lines 96-158)                      *)

\* timers set on one manager
MaxTimers == 4

\* clearTimeout of the runtime: the timer with that handle, if still pending
ClearNative(pending, handle) == {t \in pending : t.handle # handle}

\* this.timeouts after clearTimeout(operationId), lines 115-121
TimeoutsAfterClear(timeouts, operationId) ==
  [timeouts EXCEPT ![operationId] = 0]

\* AuthTimeoutManager.setTimeout, lines 102-112
AuthTimeoutManager_setTimeout(operationId) ==
  /\ tmHandles < MaxTimers
  /\ LET handle == tmHandles + 1
     IN /\ tmHandles' = handle
        /\ tmPending' = ClearNative(tmPending, tmTimeouts[operationId])
                          \cup {[handle |-> handle, operationId |-> operationId]}
        /\ tmTimeouts' = [tmTimeouts EXCEPT ![operationId] = handle]
  /\ tmCleared' = [tmCleared EXCEPT ![operationId] = FALSE]
  /\ UNCHANGED notTmVars

\* AuthTimeoutManager.clearTimeout, lines 115-121
AuthTimeoutManager_clearTimeout(operationId) ==
  /\ tmPending' = ClearNative(tmPending, tmTimeouts[operationId])
  /\ tmTimeouts' = TimeoutsAfterClear(tmTimeouts, operationId)
  /\ tmCleared' = [tmCleared EXCEPT ![operationId] = TRUE]
  /\ UNCHANGED tmHandles
  /\ UNCHANGED notTmVars

\* AuthTimeoutManager.clearAll, lines 151-155
clearAll ==
  /\ tmPending' = {t \in tmPending :
                     \A operationId \in OperationIds :
                       tmTimeouts[operationId] # t.handle}
  /\ tmTimeouts' = [operationId \in OperationIds |-> 0]
  /\ tmCleared' = [operationId \in OperationIds |-> TRUE]
  /\ UNCHANGED tmHandles
  /\ UNCHANGED notTmVars

\* a timer expires: the arrow function of lines 105-109 runs. Its callback()
\* either returns or calls setTimeout for the same operationId (rearm); then
\* line 108 deletes the entry of operationId
AuthTimeoutManager_expires(timer, rearm) ==
  /\ timer \in tmPending
  /\ rearm => tmHandles < MaxTimers
  /\ LET operationId == timer.operationId
         fired == tmPending \ {timer}
         handle == tmHandles + 1
     IN /\ tmHandles' = IF rearm THEN handle ELSE tmHandles
        /\ tmPending' =
             IF rearm
             THEN ClearNative(fired, tmTimeouts[operationId])
                    \cup {[handle |-> handle, operationId |-> operationId]}
             ELSE fired
        /\ tmTimeouts' = TimeoutsAfterClear(tmTimeouts, operationId)
        /\ tmCleared' = IF rearm
                        THEN [tmCleared EXCEPT ![operationId] = FALSE]
                        ELSE tmCleared
  /\ UNCHANGED notTmVars

PossibleTimers ==
  [handle : 1..(MaxTimers + 1), operationId : OperationIds]

InitTimeoutManager ==
  /\ FirstInitial
  /\ RateLimiterInitial
  /\ TimeoutManagerInitial
  /\ SignupInitial
  /\ LanguageInitial

NextTimeoutManager ==
  \/ \E operationId \in OperationIds : AuthTimeoutManager_setTimeout(operationId)
  \/ \E operationId \in OperationIds : AuthTimeoutManager_clearTimeout(operationId)
  \/ clearAll
  \/ \E timer \in PossibleTimers, rearm \in BOOLEAN :
       AuthTimeoutManager_expires(timer, rearm)

SpecTimeoutManager == InitTimeoutManager /\ [][NextTimeoutManager]_vars

----------------------------------------------------------------------------
(* SignupPage, the three-step flow (src/app/signup/page.tsx, lines 451-end)   *)

\* attempts of one visitor
MaxSignupAttempts == 2

\* how signUp (src/lib/auth.ts, lines 49-62) can end: data with a user, data
\* without one, or the error thrown
SignUpOutcomes == {"user", "noUser", "rejected"}

\* what the webhook request can meet: fetch rejects, a status that is not ok,
\* a body that is not JSON, or the parsed body
WebhookResponses ==
  {[fetch |-> "rejected", body |-> "none"],
   [fetch |-> "notOk", body |-> "none"],
   [fetch |-> "ok", body |-> "notJson"],
   [fetch |-> "ok", body |-> "null"],
   [fetch |-> "ok", body |-> "successTrue"],
   [fetch |-> "ok", body |-> "successFalse"],
   [fetch |-> "ok", body |-> "noSuccessField"]}

\* validateWebhookResponse, src/lib/auth.ts lines 375-391
validateWebhookResponse(body) ==
  IF body = "null" THEN FALSE
  ELSE IF body \in {"successTrue", "successFalse"} THEN body = "successTrue"
  ELSE TRUE

\* callWebhook('SIGNUP_WEBHOOK', ...), src/lib/auth.ts lines 396-440: the
\* `success` of its result (the webhook is enabled, line 337)
callWebhook(response) ==
  IF response.fetch = "rejected" THEN FALSE
  ELSE IF response.fetch = "notOk" THEN FALSE
  ELSE IF response.body = "notJson" THEN FALSE
  ELSE validateWebhookResponse(response.body)

\* `errors` of the step that is showing, lines 527-549
SignupErrors == suStep \in FormSteps /\ ~suFilled[suStep]

\* handleInputChange on the fields of the step that is showing
SignupPage_handleInputChange(filled) ==
  /\ suStep \in FormSteps
  /\ suFilled' = [suFilled EXCEPT ![suStep] = filled]
  /\ UNCHANGED <<suStep, suLoading, suPc, suSignUp, suWebhook, suAttempts>>
  /\ UNCHANGED notSuVars

\* handleStepSubmit of steps 1 and 2, lines 551-559
handleStepSubmit(nextStep) ==
  /\ \/ suStep = "1" /\ nextStep = "2"
     \/ suStep = "2" /\ nextStep = "3"
  /\ suStep' = IF SignupErrors THEN suStep ELSE nextStep
  /\ UNCHANGED <<suLoading, suFilled, suPc, suSignUp, suWebhook, suAttempts>>
  /\ UNCHANGED notSuVars

\* the Back buttons of steps 2 and 3, lines 732 and 798
SignupPage_back ==
  /\ suStep \in {"2", "3"}
  /\ suStep' = IF suStep = "2" THEN "1" ELSE "2"
  /\ UNCHANGED <<suLoading, suFilled, suPc, suSignUp, suWebhook, suAttempts>>
  /\ UNCHANGED notSuVars

\* handleFinalSubmit up to `await signUp`, lines 562-574; the submit button is
\* disabled while loading
handleFinalSubmit ==
  /\ suStep = "3"
  /\ ~suLoading
  /\ ~SignupErrors
  /\ suAttempts < MaxSignupAttempts
  /\ suAttempts' = suAttempts + 1
  /\ suLoading' = TRUE
  /\ suStep' = "loading"
  /\ suPc' = "awaitSignUp"
  /\ suSignUp' = "none"
  /\ suWebhook' = "none"
  /\ UNCHANGED suFilled
  /\ UNCHANGED notSuVars

\* handleFinalSubmit after `await signUp`, without the test of auth.user
handleFinalSubmit_signUpSettled_anyData(outcome) ==
  /\ suPc = "awaitSignUp"
  /\ suSignUp' = outcome
  /\ IF outcome # "rejected"
     THEN /\ suPc' = "awaitWebhook"
          /\ UNCHANGED <<suStep, suLoading>>
     ELSE /\ suPc' = "idle"
          /\ suStep' = "3"
          /\ suLoading' = FALSE
  /\ UNCHANGED <<suFilled, suWebhook, suAttempts>>
  /\ UNCHANGED notSuVars

\* handleFinalSubmit after `await signUp`: lines 574-578 up to `await
\* callWebhook`, or catch and finally (lines 597-604)
handleFinalSubmit_signUpSettled(outcome) ==
  /\ suPc = "awaitSignUp"
  /\ suSignUp' = outcome
  /\ IF outcome = "user"
     THEN /\ suPc' = "awaitWebhook"
          /\ UNCHANGED <<suStep, suLoading>>
     ELSE /\ suPc' = "idle"
          /\ suStep' = "3"
          /\ suLoading' = FALSE
  /\ UNCHANGED <<suFilled, suWebhook, suAttempts>>
  /\ UNCHANGED notSuVars

\* handleFinalSubmit after `await callWebhook`, lines 578-604
handleFinalSubmit_webhookSettled(response) ==
  /\ suPc = "awaitWebhook"
  /\ LET success == callWebhook(response)
     IN /\ suWebhook' = IF success THEN "success" ELSE "failure"
        /\ suStep' = IF success THEN "confirmation" ELSE "3"
  /\ suLoading' = FALSE
  /\ suPc' = "idle"
  /\ UNCHANGED <<suFilled, suSignUp, suAttempts>>
  /\ UNCHANGED notSuVars

\* the button of the confirmation step, line 827: router.push('/login')
SignupPage_toLogin ==
  /\ suStep = "confirmation"
  /\ suStep' = "left"
  /\ UNCHANGED <<suLoading, suFilled, suPc, suSignUp, suWebhook, suAttempts>>
  /\ UNCHANGED notSuVars

InitSignup ==
  /\ FirstInitial
  /\ RateLimiterInitial
  /\ TimeoutManagerInitial
  /\ SignupInitial
  /\ LanguageInitial

NextSignup ==
  \/ \E filled \in BOOLEAN : SignupPage_handleInputChange(filled)
  \/ \E nextStep \in {"2", "3"} : handleStepSubmit(nextStep)
  \/ SignupPage_back
  \/ handleFinalSubmit
  \/ \E outcome \in SignUpOutcomes : handleFinalSubmit_signUpSettled(outcome)
  \/ \E response \in WebhookResponses : handleFinalSubmit_webhookSettled(response)
  \/ SignupPage_toLogin

SpecSignup == InitSignup /\ [][NextSignup]_vars

----------------------------------------------------------------------------
(* LanguageProvider (src/unnamed/part_010, lines 44-130)                      *)

\* what localStorage can hold under STORAGE_KEY: nothing, a code, or another
\* string
StoredValues == {"null", "xx"} \cup LANGUAGE_OPTIONS

\* preferred_language of a merchant profile: null, a code, or another string
PreferredLanguages == {"null", "xx"} \cup LANGUAGE_OPTIONS

\* the merchant profiles AuthProvider can publish
MerchantProfiles == [id : {1, 2}, preferred_language : PreferredLanguages]

\* isLanguageCode, lines 25-27
isLanguageCode(value) == value \in LANGUAGE_OPTIONS

\* the value the initialising effect computes, lines 54-64
InitialLanguage(stored, profile) ==
  LET initial == IF stored # "null" /\ isLanguageCode(stored)
                 THEN stored ELSE DEFAULT_LANGUAGE
  IN IF /\ initial = DEFAULT_LANGUAGE
        /\ profile # NoMerchantYet
        /\ profile.preferred_language # "null"
        /\ isLanguageCode(profile.preferred_language)
     THEN profile.preferred_language
     ELSE initial

\* the effect of lines 50-68 with `merchant` as rendered
InitialiseEffect(profile) ==
  IF lpInitialised
  THEN UNCHANGED <<lpLanguage, lpInitialised>>
  ELSE /\ lpLanguage' = InitialLanguage(lpStored, profile)
       /\ lpInitialised' = TRUE

\* the effects of the first render run
LanguageProvider_mounted ==
  /\ lpPc = "rendered"
  /\ lpPc' = "ready"
  /\ InitialiseEffect(lpMerchant)
  /\ UNCHANGED <<lpStored, lpMerchant, lpUpdate>>
  /\ UNCHANGED notLpVars

\* AuthProvider publishes another merchant (part_009, lines 56-57 and 99-112):
\* LanguageProvider renders again and the effect, which depends on [merchant],
\* runs
LanguageProvider_merchantChanged(profile) ==
  /\ lpPc = "ready"
  /\ profile # lpMerchant
  /\ lpMerchant' = profile
  /\ InitialiseEffect(profile)
  /\ UNCHANGED <<lpPc, lpStored, lpUpdate>>
  /\ UNCHANGED notLpVars

\* setLanguage, lines 77-100
setLanguage(code) ==
  /\ lpPc = "ready"
  /\ lpLanguage' = code
  /\ lpStored' = code
  /\ lpUpdate' = IF lpMerchant # NoMerchantYet /\ lpMerchant.preferred_language # code
                 THEN [id |-> lpMerchant.id, code |-> code]
                 ELSE lpUpdate
  /\ UNCHANGED <<lpPc, lpInitialised, lpMerchant>>
  /\ UNCHANGED notLpVars

InitLanguage ==
  /\ FirstInitial
  /\ RateLimiterInitial
  /\ TimeoutManagerInitial
  /\ SignupInitial
  /\ lpPc = "rendered"
  /\ lpLanguage = DEFAULT_LANGUAGE
  /\ lpInitialised = FALSE
  /\ lpStored \in StoredValues
  /\ lpMerchant = NoMerchantYet
  /\ lpUpdate = NoLanguageUpdate

NextLanguage ==
  \/ LanguageProvider_mounted
  \/ \E profile \in MerchantProfiles \cup {NoMerchantYet} :
       LanguageProvider_merchantChanged(profile)
  \/ \E code \in LANGUAGE_OPTIONS : setLanguage(code)

SpecLanguage == InitLanguage /\ [][NextLanguage]_vars

----------------------------------------------------------------------------
(* Properties *)

HasError(errors, field) == field \in DOMAIN errors

\* the form was submitted and passed validation
NewFormSubmitted == NewFormMounted /\ (nLoading \/ showScalingModal)

ValidPercentValues == {5 * k : k \in 1..20}

\* C1: for a percent offer, both forms report an error on discount_value exactly
\* when the value is not one of 5, 10, ..., 100.
C1_PercentRule ==
  /\ (NewFormMounted /\ nFormData.discount_type = "percent") =>
       (HasError(nErrors, "discount_value")
          <=> nFormData.discount_value \notin ValidPercentValues)
  /\ (OfferFormMounted /\ oFormData.discount_type = "percent") =>
       (HasError(oErrors, "discount_value")
          <=> oFormData.discount_value \notin ValidPercentValues)

\* a submitted percent offer of 100 was accepted while 7 is held back
C1_Witness ==
  /\ NewFormSubmitted
  /\ nFormData.discount_type = "percent"
  /\ nFormData.discount_value = 100
  /\ ~HasError(nErrors, "discount_value")
  /\ HasError(validateForm([nFormData EXCEPT !.discount_value = 7]), "discount_value")

\* C2: for a coupon offer, both forms report an error on discount_value exactly
\* when the value is below 1, whatever its size or divisibility.
C2_CouponRule ==
  /\ (NewFormMounted /\ nFormData.discount_type = "coupon") =>
       (HasError(nErrors, "discount_value") <=> nFormData.discount_value < 1)
  /\ (OfferFormMounted /\ oFormData.discount_type = "coupon") =>
       (HasError(oErrors, "discount_value") <=> oFormData.discount_value < 1)

\* a submitted coupon offer of 151, no multiple of 5 and above 100, was accepted
C2_Witness ==
  /\ OfferFormMounted
  /\ oLoading
  /\ oFormData.discount_type = "coupon"
  /\ oFormData.discount_value = 151
  /\ ~HasError(oErrors, "discount_value")
  /\ HasError(computeErrors([oFormData EXCEPT !.discount_value = 0]), "discount_value")

\* calendar order of two <year, month, day> triples
LaterDay(a, b) ==
  \/ a[1] > b[1]
  \/ a[1] = b[1] /\ a[2] > b[2]
  \/ a[1] = b[1] /\ a[2] = b[2] /\ a[3] > b[3]

\* start and end are both set and start is a later day than end
StartAfterEnd(start, end) ==
  \E a \in FnDateTriples, b \in FnDateTriples :
    /\ start = IsoDate(a[1], a[2], a[3])
    /\ end = IsoDate(b[1], b[2], b[3])
    /\ LaterDay(a, b)

\* C3: both forms report an error on end_at exactly when start and end are both
\* set and the start is after the end; equal days and empty dates give none.
C3_EndDateRule ==
  /\ NewFormMounted =>
       (HasError(nErrors, "end_at") <=> StartAfterEnd(nFormData.start_at, nFormData.end_at))
  /\ OfferFormMounted =>
       (HasError(oErrors, "end_at") <=> StartAfterEnd(oFormData.start_at, oFormData.end_at))

\* a submitted offer that starts and ends on the same day was accepted, and the
\* same offer ending the day before is held back
C3_Witness ==
  /\ NewFormSubmitted
  /\ nFormData.start_at = Today
  /\ nFormData.end_at = Today
  /\ ~HasError(nErrors, "end_at")
  /\ HasError(validateForm([nFormData EXCEPT !.end_at = DayBefore]), "end_at")

\* C4: NewOfferForm reports an error on start_at exactly when start_at is empty;
\* OfferForm never reports one.
C4_StartDateRule ==
  /\ NewFormMounted => (HasError(nErrors, "start_at") <=> nFormData.start_at = EmptyStr)
  /\ OfferFormMounted => ~HasError(oErrors, "start_at")

\* OfferForm sent an offer without start date; NewOfferForm holds the same dates back
C4_Witness ==
  /\ OfferFormMounted
  /\ oLoading
  /\ oFormData.start_at = EmptyStr
  /\ oFormData.end_at = Today
  /\ oRequest.records[1].start_at = Null
  /\ HasError(validateForm([NewInitialFormData EXCEPT !.start_at = EmptyStr]), "start_at")

\* C5: handleSubmit of either form sends a call to the store, and NewOfferForm
\* builds a ladder, only if validation of the current form data found no error;
\* a submit that finds an error sends nothing and leaves the form data as it is.
C5_ValidationGatesPersistence ==
  [][/\ NewOfferForm_handleSubmit =>
          /\ nFormData' = nFormData
          /\ IF validateForm(nFormData) = EmptyMap
             THEN (nRequest' # NoRequest) # showScalingModal'
             ELSE /\ nRequest' = NoRequest
                  /\ ~showScalingModal'
                  /\ scalingOffers' = scalingOffers
                  /\ ~nLoading'
     /\ OfferForm_handleSubmit =>
          /\ oFormData' = oFormData
          /\ IF computeErrors(oFormData) = EmptyMap
             THEN oRequest' # NoRequest
             ELSE oRequest' = NoRequest /\ ~oLoading'
     /\ (nRequest = NoRequest /\ nRequest' # NoRequest /\ ~showScalingModal) =>
          validateForm(nFormData') = EmptyMap
     /\ (~showScalingModal /\ showScalingModal') =>
          validateForm(nFormData') = EmptyMap
     /\ (oRequest = NoRequest /\ oRequest' # NoRequest) =>
          computeErrors(oFormData') = EmptyMap]_vars

\* an invalid edit form was submitted and nothing was sent
C5_Witness ==
  /\ OfferFormMounted
  /\ HasError(oErrors, "title")
  /\ oFormData.discount_type = "coupon"
  /\ ~HasError(oErrors, "discount_value")
  /\ ~oLoading
  /\ oRequest = NoRequest

TopTier == 100000

\* the discount values of the ladder on display, in ladder order
LadderValues == [k \in 1..Len(scalingOffers) |-> scalingOffers[k].discount_value]

\* C6: for a base offer whose min_followers is no tier threshold, or is the top
\* tier, the ladder is empty, and a valid submit opens no modal and sends one
\* insert with the base offer alone.
C6_NoLadderWithoutHigherTier ==
  (NewFormMounted /\ (nFormData.min_followers \notin TierValues
                        \/ nFormData.min_followers = TopTier)) =>
    /\ generateScalingOffers(merchant, nFormData) = <<>>
    /\ ~showScalingModal
    /\ NewFormSubmitted =>
         /\ nRequest.op = "insert"
         /\ Len(nRequest.records) = 1
         /\ nRequest.records[1].min_followers = nFormData.min_followers
         /\ nRequest.records[1].discount_value = nFormData.discount_value
         /\ nRequest.records[1].discount_type = nFormData.discount_type

\* an offer for 750 followers was submitted and sent alone
C6_Witness ==
  /\ NewFormSubmitted
  /\ nFormData.min_followers = 750
  /\ nLoading
  /\ Len(nRequest.records) = 1

\* C7: for a base offer at a tier below the top tier, a valid submit shows a
\* ladder with exactly one entry for every higher tier, in ascending order:
\* 7 minus the number of lower tiers.
C7_LadderTiers ==
  (NewFormSubmitted /\ nFormData.min_followers \in TierValues \ {TopTier}) =>
    LET higher == {t \in TierValues : t > nFormData.min_followers}
        lower == {t \in TierValues : t < nFormData.min_followers}
    IN /\ showScalingModal
       /\ Len(scalingOffers) = 7 - Cardinality(lower)
       /\ {scalingOffers[k].min_followers : k \in 1..Len(scalingOffers)} = higher
       /\ \A i, j \in 1..Len(scalingOffers) :
            i < j => scalingOffers[i].min_followers < scalingOffers[j].min_followers

C7_Witness ==
  /\ NewFormSubmitted
  /\ nFormData.min_followers = 5000
  /\ [k \in 1..Len(scalingOffers) |-> scalingOffers[k].min_followers]
       = <<10000, 20000, 50000, 100000>>

\* C8: the ladder of a percent offer of v holds v + 10 * k at the k-th tier
\* above the base tier.
C8_PercentStep ==
  (NewFormMounted /\ showScalingModal /\ nFormData.discount_type = "percent") =>
    \A k \in 1..Len(scalingOffers) :
      scalingOffers[k].discount_value = nFormData.discount_value + 10 * k

C8_Witness ==
  /\ NewFormMounted /\ showScalingModal
  /\ nFormData.discount_type = "percent"
  /\ nFormData.discount_value = 10
  /\ nFormData.min_followers = 1000
  /\ LadderValues = <<20, 30, 40, 50, 60, 70>>

\* C9: no entry of the ladder of a percent offer exceeds 100.
C9_PercentCapped ==
  (NewFormMounted /\ showScalingModal /\ nFormData.discount_type = "percent") =>
    \A k \in 1..Len(scalingOffers) : scalingOffers[k].discount_value <= 100

MinOf(a, b) == IF a < b THEN a ELSE b

SelectedIndices(ladder) == {i \in 1..Len(ladder) : ladder[i].selected}

\* a record of an insert call carries the type and the dates of the form
CarriesBase(record, formData) ==
  /\ record.discount_type = formData.discount_type
  /\ record.start_at = (IF formData.start_at = EmptyStr THEN Null ELSE formData.start_at)
  /\ record.end_at = (IF formData.end_at = EmptyStr THEN Null ELSE formData.end_at)

\* C11: handleScalingConfirm sends exactly one insert call: the base offer first,
\* then the entries of the ladder that are selected when confirm is pressed, in
\* ladder order and with the base offer's type and dates; a deselected entry is
\* in no call, and every call that carries a ladder entry is the one sent by
\* handleScalingConfirm and starts with the base offer.
C11_ConfirmInsertsSelected ==
  [][/\ handleScalingConfirm =>
          LET sel == SelectedIndices(scalingOffers)
              records == nRequest'.records
          IN /\ nRequest = NoRequest
             /\ nRequest'.op = "insert"
             /\ nOrphans' = nOrphans
             /\ Len(records) = 1 + Cardinality(sel)
             /\ records[1].min_followers = nFormData.min_followers
             /\ records[1].discount_value = nFormData.discount_value
             /\ \A i \in sel :
                  LET r == records[1 + Cardinality({j \in sel : j <= i})]
                  IN /\ r.min_followers = scalingOffers[i].min_followers
                     /\ r.discount_value = scalingOffers[i].discount_value
                     /\ r.title = scalingOffers[i].title
             /\ \A i \in (1..Len(scalingOffers)) \ sel :
                  \A k \in 1..Len(records) :
                    records[k].min_followers # scalingOffers[i].min_followers
             /\ \A k \in 1..Len(records) : CarriesBase(records[k], nFormData)
     /\ (nRequest' # nRequest /\ nRequest' # NoRequest) =>
          /\ nRequest'.records[1].min_followers = nFormData.min_followers
          /\ nRequest'.records[1].discount_value = nFormData.discount_value
          /\ Len(nRequest'.records) > 1 => handleScalingConfirm]_vars

\* confirm was pressed on a ladder with one entry deselected: the call holds the
\* base offer and every entry but that one
C11_Witness ==
  /\ NewFormMounted /\ showScalingModal /\ nLoading
  /\ nToggles = 1
  /\ Len(scalingOffers) >= 2
  /\ Cardinality(SelectedIndices(scalingOffers)) = Len(scalingOffers) - 1
  /\ Len(nRequest.records) = Len(scalingOffers)
  /\ \E i \in 1..Len(scalingOffers) :
       /\ ~scalingOffers[i].selected
       /\ \A k \in 1..Len(nRequest.records) :
            nRequest.records[k].min_followers # scalingOffers[i].min_followers

\* a base offer that the rules of the form accept, stated on its fields
ValidBase(data) ==
  /\ data.discount_type \in {"percent", "coupon"}
  /\ data.discount_type = "percent" => data.discount_value \in ValidPercentValues
  /\ data.discount_type = "coupon" => data.discount_value >= 1
  /\ data.start_at # EmptyStr
  /\ ~StartAfterEnd(data.start_at, data.end_at)

\* C12: a submit that gets as far as generateScalingOffers (it opens the modal or
\* sends the base offer alone) holds form data without validation error, so every
\* ladder that is built or on display comes from a base offer with a percent or
\* coupon type and a value that the rules accept.
C12_ScalerGetsValidInput ==
  [][/\ (NewOfferForm_handleSubmit /\ (showScalingModal' \/ nLoading')) =>
          /\ ValidBase(nFormData)
          /\ nErrors' = EmptyMap
     /\ (scalingOffers' # scalingOffers /\ scalingOffers' # <<>> /\ ~showScalingModal) =>
          /\ NewOfferForm_handleSubmit
          /\ ValidBase(nFormData)
     /\ showScalingModal' => ValidBase(nFormData')]_vars

\* a coupon of 7 passed validation after the same value was held back as a
\* percentage, and its ladder is on display
C12_Witness ==
  /\ NewFormMounted /\ showScalingModal
  /\ ~nLoading
  /\ nFormData.discount_type = "coupon"
  /\ nFormData.discount_value = 7
  /\ nErrors = EmptyMap
  /\ LadderValues[1] = 14
  /\ HasError(validateForm([nFormData EXCEPT !.discount_type = "percent"]),
              "discount_value")

\* a ladder without the selected flags
StripSelected(ladder) ==
  [k \in 1..Len(ladder) |->
     [min_followers |-> ladder[k].min_followers,
      discount_value |-> ladder[k].discount_value,
      title |-> ladder[k].title]]

LoginPaths == {PathLogin, PathHome}

\* C14: a request for a path that starts with /dashboard, handled without a
\* session being obtained, is answered by a redirect to the login page, whatever
\* environment variables are set.
C14_DashboardRequiresSession ==
  (mwPc = "done" /\ StartsWith(mwPath, PathDashboard) /\ mwSession # "session") =>
    /\ mwResponse.kind = "redirect"
    /\ mwResponse.to \in LoginPaths

\* the form a title must have for a discount of `value` of type `type`
TitleFits(title, type, value, name) ==
  /\ title.name = name
  /\ type = "percent" => title.form = "percent" /\ title.value = value
  /\ type = "coupon" =>
       /\ title.form = "free" <=> value >= 150
       /\ title.form = "currency" <=> value < 150
       /\ title.form = "currency" => title.value = value

\* C15: the title of every ladder entry, and of the base offer in the call sent,
\* follows from the discount type and the value: the percent form with the value
\* for a percentage; for a coupon the "Free" form exactly when the value is at
\* least 150, so for every entry at the cap, and the currency form with the
\* value otherwise.
C15_TitleByTypeAndValue ==
  /\ (NewFormMounted /\ showScalingModal) =>
       \A k \in 1..Len(scalingOffers) :
         /\ TitleFits(scalingOffers[k].title, nFormData.discount_type,
                      scalingOffers[k].discount_value, merchant.name)
         /\ (nFormData.discount_type = "coupon"
               /\ nFormData.discount_value + k * nFormData.discount_value >= 150)
              => scalingOffers[k].title.form = "free"
  /\ (NewFormMounted /\ nLoading) =>
       \A k \in 1..Len(nRequest.records) :
         TitleFits(nRequest.records[k].title, nRequest.records[k].discount_type,
                   nRequest.records[k].discount_value, merchant.name)

\* a coupon of 50: the entry of 100 has the currency title, the entry that
\* reaches 150 without being clamped and the clamped ones are free
C15_Witness ==
  /\ NewFormMounted /\ showScalingModal
  /\ nFormData.discount_type = "coupon"
  /\ nFormData.discount_value = 50
  /\ nFormData.min_followers = 2000
  /\ [k \in 1..Len(scalingOffers) |-> scalingOffers[k].title.form]
       = <<"currency", "free", "free", "free", "free">>
  /\ scalingOffers[1].title.value = 100

\* the base offer has a tier above it
HasHigherTier(data) == data.min_followers \in TierValues \ {TopTier}

\* C16: a valid submit of a base offer with a higher tier opens the scaling modal
\* and sends nothing; while the modal shows, a call is sent only by
\* handleScalingConfirm or handleScalingCancel; handleSubmit sends the base offer
\* itself, without modal, only when there is no higher tier.
C16_ModalBeforeInsert ==
  [][/\ (NewOfferForm_handleSubmit /\ ValidBase(nFormData)) =>
          IF HasHigherTier(nFormData)
          THEN /\ showScalingModal'
               /\ Len(scalingOffers') > 0
               /\ nRequest' = NoRequest
               /\ ~nLoading'
               /\ nOrphans' = nOrphans
          ELSE /\ ~showScalingModal'
               /\ nRequest' # NoRequest
               /\ Len(nRequest'.records) = 1
     /\ (showScalingModal /\ ~nLoading) => nRequest = NoRequest
     /\ (showScalingModal /\ nRequest = NoRequest /\ nRequest' # NoRequest) =>
          handleScalingConfirm \/ handleScalingCancel
     /\ (~showScalingModal /\ nRequest = NoRequest /\ nRequest' # NoRequest) =>
          /\ NewOfferForm_handleSubmit
          /\ ~HasHigherTier(nFormData)
          /\ ~showScalingModal']_vars

\* the modal shows the one-entry ladder of an offer for 50000 followers, the user
\* has toggled the entry, and no call has been sent
C16_Witness ==
  /\ NewFormMounted /\ showScalingModal
  /\ nFormData.min_followers = 50000
  /\ Len(scalingOffers) = 1
  /\ nToggles = 1
  /\ ~nLoading
  /\ nRequest = NoRequest
  /\ nOrphans = 0

\* C17: handleScalingCancel sends one insert call with one record, the base
\* offer, whatever entries of the ladder are selected; it leaves the form data
\* and the ladder as they are.
C17_CancelInsertsBaseOnly ==
  [][handleScalingCancel =>
       /\ nRequest = NoRequest
       /\ nRequest'.op = "insert"
       /\ nOrphans' = nOrphans
       /\ Len(nRequest'.records) = 1
       /\ nRequest'.records[1].min_followers = nFormData.min_followers
       /\ nRequest'.records[1].discount_value = nFormData.discount_value
       /\ CarriesBase(nRequest'.records[1], nFormData)
       /\ \A k \in 1..Len(scalingOffers) :
            nRequest'.records[1].min_followers # scalingOffers[k].min_followers
       /\ Len(scalingOffers) > 0
       /\ nFormData' = nFormData
       /\ scalingOffers' = scalingOffers]_vars

\* cancel was pressed on a ladder whose entries are all selected: the call in
\* flight holds the base offer alone
C17_Witness ==
  /\ NewFormMounted /\ showScalingModal /\ nLoading
  /\ nToggles = 0
  /\ Len(scalingOffers) >= 2
  /\ \A k \in 1..Len(scalingOffers) : scalingOffers[k].selected
  /\ Len(nRequest.records) = 1
  /\ nRequest.records[1].min_followers = nFormData.min_followers

\* C18: a mounted AuthProvider that is loading stops loading, or is unmounted:
\* on every path of the initial session check and on every auth state change
\* event.
C18_LoadingEnds == (apMounted /\ apLoading) ~> (~apLoading \/ ~apMounted)

\* C19: at most one loadAuthData execution is between its flag test and its end,
\* and loadingDataRef is set exactly while there is one; a call made meanwhile
\* starts no fetch and sets no state; every end of an execution (data set, fetch
\* rejected, provider unmounted) clears the flag.
C19_OneLoadAtATime ==
  [][/\ Len(apLoads) <= 1 /\ Len(apLoads') <= 1
     /\ loadingDataRef <=> Len(apLoads) = 1
     /\ loadingDataRef' <=> Len(apLoads') = 1
     /\ (AuthProvider_deferredTimer /\ loadingDataRef) =>
          /\ apLoads' = apLoads
          /\ UNCHANGED <<apUser, apUserRecord, apMerchant, apLoading, loadingDataRef>>
     /\ (AuthProvider_deferredTimer /\ ~loadingDataRef /\ apMounted) =>
          /\ Len(apLoads') = 1
          /\ apLoads'[1].user = Head(apDeferred)
     /\ Len(apLoads') < Len(apLoads) => ~loadingDataRef' /\ apLoads' = <<>>]_vars

\* every deferred call was made, the last one for user 2 while the execution for
\* user 1 was awaiting its fetches: that call was skipped
C19_Witness ==
  /\ apMounted
  /\ apUser = 2
  /\ apDeferred = <<>>
  /\ loadingDataRef
  /\ Len(apLoads) = 1
  /\ apLoads[1].user = 1
  /\ apLoads[1].pc = "fetch"

\* C20: once "Try Again" was pressed 3 times on a boundary whose children threw
\* an auth error after each press, the next press redirects to '/' and does not
\* render the children again.
C20_RetriesBounded ==
  [][(retry /\ ebPresses >= 3) =>
       /\ ebStatus' = "redirected"
       /\ ebHasError']_vars

\* the isAllowed calls for identifier that returned true within the time span
\* from..from + rlWindowMs, since the last reset of identifier
AllowedInSpan(allowed, from) ==
  {k \in DOMAIN allowed : allowed[k] >= from /\ allowed[k] <= from + rlWindowMs}

\* C21: for every identifier, at most maxAttempts of the isAllowed calls made
\* since its last reset that fall within any time span of length windowMs
\* returned true; a call or a reset for one identifier changes neither the
\* record nor the allowed calls of another.
C21_AtMostMaxAttemptsPerWindow ==
  [][/\ \A identifier \in RateLimiterIds : \A from \in 0..MaxRlTime :
          Cardinality(AllowedInSpan(rlAllowed'[identifier], from)) <= rlMaxAttempts
     /\ \A identifier \in RateLimiterIds :
          (isAllowed(identifier) \/ reset(identifier)) =>
            \A other \in RateLimiterIds \ {identifier} :
              /\ rlAttempts'[other] = rlAttempts[other]
              /\ rlAllowed'[other] = rlAllowed[other]]_vars

\* a limiter that refused a call for an identifier (count above maxAttempts)
\* after the window had passed once for it (more than maxAttempts allowed calls
\* in all), while the other identifier is still allowed
C21_Witness ==
  \E identifier \in RateLimiterIds : \E other \in RateLimiterIds \ {identifier} :
    /\ rlAttempts[identifier].count > rlMaxAttempts
    /\ Len(rlAllowed[identifier]) > rlMaxAttempts
    /\ rlAttempts[other].count = 1
    /\ Len(rlAllowed[other]) = 1

\* C22: for each operationId at most one timer is pending, and no timer of an
\* operationId expires after clearTimeout(operationId) or clearAll() unless
\* setTimeout(operationId, ...) was called since.
C22_PendingTimersCancellable ==
  [][/\ \A operationId \in OperationIds :
          Cardinality({t \in tmPending' : t.operationId = operationId}) <= 1
     /\ \A timer \in PossibleTimers, rearm \in BOOLEAN :
          AuthTimeoutManager_expires(timer, rearm) =>
            ~tmCleared[timer.operationId]]_vars

\* C23: no create or edit form issues an insert or update call while the
\* merchant's subscription_status is 'suspended'.
C23_NoMutationWhileSuspended ==
  [][(\/ nRequest = NoRequest /\ nRequest' # NoRequest
      \/ oRequest = NoRequest /\ oRequest' # NoRequest)
       => ~isSuspended]_vars

\* the attempt that just ended failed: signUp gave no user or threw, or
\* callWebhook returned success: false
SignupAttemptFailed ==
  /\ suPc # "idle"
  /\ suPc' = "idle"
  /\ suSignUp' \in {"noUser", "rejected"} \/ suWebhook' = "failure"

\* C24: step 'confirmation' shows only when, in the last attempt, signUp
\* returned a user and callWebhook returned success; an attempt that fails ends
\* at step 3 with loading false, and step 'loading' shows exactly while an
\* attempt is under way.
C24_ConfirmationOnlyAfterBoth ==
  [][/\ suStep' \in {"confirmation", "left"} =>
          suSignUp' = "user" /\ suWebhook' = "success"
     /\ SignupAttemptFailed => suStep' = "3" /\ ~suLoading'
     /\ suStep' = "loading" <=> suPc' # "idle"
     /\ suLoading' <=> suPc' # "idle"]_vars

\* the confirmation step reached in a second attempt, after a first one failed
C24_Witness ==
  /\ suStep = "confirmation"
  /\ suAttempts = 2

\* C25: when a merchant profile with a valid preferred_language becomes
\* available and localStorage holds no valid language, the active language
\* becomes the merchant's preferred language; when localStorage holds a valid
\* language, the first effect makes it the active language and the arrival of
\* the merchant leaves it.
C25_LanguageFromStorageOrMerchant ==
  [][/\ \A profile \in MerchantProfiles :
          ( /\ LanguageProvider_merchantChanged(profile)
            /\ lpMerchant = NoMerchantYet )
          => IF isLanguageCode(lpStored)
             THEN lpLanguage' = lpLanguage
             ELSE isLanguageCode(profile.preferred_language)
                    => lpLanguage' = profile.preferred_language
     /\ (LanguageProvider_mounted /\ isLanguageCode(lpStored))
          => lpLanguage' = lpStored]_vars

====
